---- MODULE Spec2Model ----
(***************************************************************************)
(* claude-think-tool: the two-turn tool-use cycle of                       *)
(* ThinkService.AnalyzeThought (internal/usecase/thinkservice.go) over an  *)
(* injected APIClient, with the payloads kept as decoded JSON values.      *)
(***************************************************************************)
EXTENDS Integers, Sequences, FiniteSets, TLC

(***************************************************************************)
(* Go values.  A pointer or an error is Nil or Some(value); an interface{} *)
(* decoded by encoding/json is a tagged value, so that a type assertion    *)
(* (x.(string), x.([]interface{}), x.(map[string]interface{})) is a test   *)
(* of the tag.  A map[string]interface{} is a function from its keys.      *)
(***************************************************************************)
Nil == <<>>

Some(x) == <<x>>

JStr(s) == [t |-> "string", v |-> s]

JNum(n) == [t |-> "number", v |-> n]

JArr(q) == [t |-> "array", v |-> q]

JObj(m) == [t |-> "object", v |-> m]

JNull == [t |-> "null"]

EmptyMap == <<>>

\* v, ok := m[k].(string)
AsString(m, k) ==
    IF k \in DOMAIN m /\ m[k].t = "string"
    THEN [ok |-> TRUE, val |-> m[k].v]
    ELSE [ok |-> FALSE, val |-> ""]

\* v, ok := m[k].([]interface{})
AsArray(m, k) ==
    IF k \in DOMAIN m /\ m[k].t = "array"
    THEN [ok |-> TRUE, val |-> m[k].v]
    ELSE [ok |-> FALSE, val |-> <<>>]

\* errors.New(msg)
NewError(msg) == [msg |-> msg, wrapped |-> Nil]

\* ErrorfW with %v in place of %w: the cause is not kept
ErrorfWNoWrap(prefix, err) == [msg |-> prefix \o ": " \o err.msg, wrapped |-> Nil]

\* fmt.Errorf(prefix + ": %w", err): the message of err is appended and err
\* is kept as the wrapped cause.
ErrorfW(prefix, err) == [msg |-> prefix \o ": " \o err.msg, wrapped |-> Some(err)]

\* fmt.Errorf(prefix + ": %v", err): the message only, nothing wrapped.
ErrorfV(prefix, err) == [msg |-> prefix \o ": " \o err.msg, wrapped |-> Nil]

HasPrefix(s, p) == Len(s) >= Len(p) /\ SubSeq(s, 1, Len(p)) = p

HasSuffix(s, p) == Len(s) >= Len(p) /\ SubSeq(s, Len(s) - Len(p) + 1, Len(s)) = p

(***************************************************************************)
(* Bounds and input sets.                                                  *)
(***************************************************************************)
\* longest content sequence of an initial response that is enumerated
MaxContentLen == 2

\* longest content sequence of a final response that is enumerated
MaxFinalLen == 1

Invocations == {1, 2}

Thoughts == {"Japan is cool", "Launch it"}

ThoughtPrompts == {"", "Critically evaluate this hypothesis:"}

APIKeys == {"", "test-key"}

EnvKeys == {"", "env-key"}

Configs ==
    [APIKey : APIKeys, Model : {"test-model"}, MaxTokens : {1024},
     ThoughtPrompt : ThoughtPrompts]

RECURSIVE SeqsUpTo(_, _)
SeqsUpTo(S, n) ==
    IF n = 0 THEN {<<>>}
    ELSE LET shorter == SeqsUpTo(S, n - 1)
         IN  shorter \cup {Append(q, x) : q \in shorter, x \in S}

TextBlock(text) == JObj([type |-> JStr("text"), text |-> JStr(text)])

\* a tool_use block: the think tool is given a thought as its input, any
\* other tool an input of its own
ToolUseBlock(id, name) ==
    JObj([type |-> JStr("tool_use"), id |-> JStr(id), name |-> JStr(name),
          input |-> IF name = "think" THEN JObj([thought |-> JStr("t")])
                    ELSE JObj([query |-> JStr("q")])])

\* the items a content sequence of an initial response is built from
Items ==
    { TextBlock("A"), TextBlock("B"),
      ToolUseBlock("tu_1", "think"), ToolUseBlock("tu_2", "other"),
      JObj([type |-> JStr("tool_use"), name |-> JStr("think")]),
      JObj([type |-> JStr("tool_use"), id |-> JStr("tu_3"), name |-> JStr("")]),
      JObj([type |-> JStr("text"), text |-> JNum(7)]),
      JObj([type |-> JStr("thinking"), text |-> JStr("T")]),
      JObj([text |-> JStr("C")]),
      JStr("stray") }

\* the items a content sequence of a final response is built from
FinalItems == { TextBlock("done"), ToolUseBlock("tu_9", "think"), JStr("stray") }

\* the content sequences of the spec's worked examples
ExampleContents ==
    { <<TextBlock("A"), ToolUseBlock("tu_1", "think"), TextBlock("B")>>,
      <<TextBlock("hello")>> }

InitialContents == SeqsUpTo(Items, MaxContentLen) \cup ExampleContents

FinalContents == SeqsUpTo(FinalItems, MaxFinalLen)

\* a response object: stop_reason and content present or not
ResponseObject(stop, content) ==
    JObj(("id" :> JStr("msg_123")) @@ ("role" :> JStr("assistant")) @@ stop @@ content)

StopFields ==
    { EmptyMap, "stop_reason" :> JStr("end_turn"), "stop_reason" :> JStr("tool_use") }

ContentFields(contents) ==
    { EmptyMap, "content" :> JStr("not a sequence") }
        \cup { "content" :> JArr(c) : c \in contents }

\* what the bytes of a reply decode to: a JSON document, or nothing
Undecodable == [t |-> "invalid"]

ClientErrors == { NewError("API error"), NewError("context deadline exceeded") }

\* what one SendRequest call can return: (bytes, nil) or (nil, err)
Outcomes(stops, contents) ==
    { [bytes |-> Nil, err |-> Some(e)] : e \in ClientErrors }
        \cup { [bytes |-> Some(d), err |-> Nil] : d \in {Undecodable, JNull, JArr(<<>>)} }
        \cup { [bytes |-> Some(ResponseObject(s, c)), err |-> Nil] :
                 s \in stops, c \in ContentFields(contents) }

InitialOutcomes == Outcomes(StopFields, InitialContents)

Failure(e) == [bytes |-> Nil, err |-> Some(e)]

Reply(d) == [bytes |-> Some(d), err |-> Nil]

\* the first replies of the scenarios: a failed call, bytes that do not
\* decode, an answer in text, and tool_use with a usable tool_use block, with
\* one of another tool, with none, and without content
ScenarioInitialOutcomes ==
    { Failure(NewError("API error")),
      Reply(Undecodable),
      Reply(ResponseObject("stop_reason" :> JStr("end_turn"),
                           "content" :> JArr(<<TextBlock("hello")>>))),
      Reply(ResponseObject("stop_reason" :> JStr("tool_use"),
                           "content" :> JArr(<<TextBlock("A"), ToolUseBlock("tu_1", "think"),
                                               TextBlock("B")>>))),
      Reply(ResponseObject("stop_reason" :> JStr("tool_use"),
                           "content" :> JArr(<<ToolUseBlock("tu_2", "other")>>))),
      Reply(ResponseObject("stop_reason" :> JStr("tool_use"),
                           "content" :> JArr(<<TextBlock("A")>>))),
      Reply(ResponseObject("stop_reason" :> JStr("tool_use"), EmptyMap)) }

FinalOutcomes == Outcomes(StopFields \ {EmptyMap}, FinalContents)

\* the second replies of the scenarios
ScenarioFinalOutcomes ==
    { Failure(NewError("API error")),
      Reply(Undecodable),
      Reply(ResponseObject("stop_reason" :> JStr("end_turn"),
                           "content" :> JArr(<<TextBlock("done")>>))),
      Reply(ResponseObject("stop_reason" :> JStr("end_turn"),
                           "content" :> JStr("not a sequence"))) }

(***************************************************************************)
(* The pure parts of AnalyzeThought.                                       *)
(***************************************************************************)
\* Two declarations of domain.Tool are in the sources, one whose fields
\* carry json tags and one whose fields carry none; the build has one of them.
VARIABLE toolTags    \* whether the fields of domain.Tool carry json tags

\* createThinkTool: the domain.Tool value
createThinkTool ==
    [Type |-> "custom",
     Name |-> "think",
     Description |-> "A tool to analyze and verify thinking processes",
     InputSchema |->
         JObj([type |-> JStr("object"),
               properties |->
                   JObj([thought |->
                       JObj([type |-> JStr("string"),
                             description |->
                                 JStr("The thought content to be analyzed and verified")])]),
               required |-> JArr(<<JStr("thought")>>)])]

\* json.Marshal of a domain.Tool and json.Unmarshal of the bytes into a map:
\* each field under the name of its json tag, or under its Go name when the
\* field has none
MarshalTool(tool, tagged) ==
    IF tagged
    THEN JObj([type |-> JStr(tool.Type),
               name |-> JStr(tool.Name),
               description |-> JStr(tool.Description),
               input_schema |-> tool.InputSchema])
    ELSE JObj([Type |-> JStr(tool.Type),
               Name |-> JStr(tool.Name),
               Description |-> JStr(tool.Description),
               InputSchema |-> tool.InputSchema])

\* toolMap
ThinkToolMap == MarshalTool(createThinkTool, toolTags)

\* ComposePrompt without the space between the template and the thought
ComposePromptNoSpace(th, cfg) ==
    IF cfg.ThoughtPrompt # ""
    THEN cfg.ThoughtPrompt \o th
    ELSE "Please analyze the following thought: " \o th

\* userPrompt
ComposePrompt(th, cfg) ==
    IF cfg.ThoughtPrompt # ""
    THEN cfg.ThoughtPrompt \o " " \o th
    ELSE "Please analyze the following thought: " \o th

Message(role, msgContent) == JObj([role |-> JStr(role), content |-> msgContent])

\* initialRequestMap
InitialRequestMap(cfg, prompt) ==
    JObj([model |-> JStr(cfg.Model),
          max_tokens |-> JNum(cfg.MaxTokens),
          messages |-> JArr(<<Message("user", JStr(prompt))>>),
          tools |-> JArr(<<ThinkToolMap>>)])

\* json.Unmarshal(bytes, &map): an object decodes to its map, the literal
\* null leaves the map nil (reads of a nil map find no key), anything else
\* is an error.
\* Unmarshal with its error dropped: bytes that do not decode leave the map empty
UnmarshalErrorIgnored(doc) ==
    IF doc.t = "object" THEN [map |-> doc.v, err |-> Nil]
                        ELSE [map |-> EmptyMap, err |-> Nil]

Unmarshal(doc) ==
    CASE doc.t = "object" -> [map |-> doc.v, err |-> Nil]
      [] doc.t = "null" -> [map |-> EmptyMap, err |-> Nil]
      [] doc.t = "invalid" ->
            [map |-> EmptyMap, err |-> Some(NewError("unexpected end of JSON input"))]
      [] OTHER ->
            [map |-> EmptyMap,
             err |-> Some(NewError("json: cannot unmarshal into Go value of type map[string]interface {}"))]

\* ScanToolUse without its break: the last tool_use item wins
RECURSIVE ScanLastToolUse(_)
ScanLastToolUse(items) ==
    IF items = <<>> THEN [toolUseID |-> "", toolName |-> ""]
    ELSE LET item == items[Len(items)]
             rest == SubSeq(items, 1, Len(items) - 1)
         IN  IF item.t # "object" THEN ScanLastToolUse(rest)
             ELSE LET blockType == AsString(item.v, "type")
                  IN  IF ~blockType.ok \/ blockType.val # "tool_use"
                      THEN ScanLastToolUse(rest)
                      ELSE [toolUseID |-> AsString(item.v, "id").val,
                            toolName |-> AsString(item.v, "name").val]

\* ScanToolUse going on past a tool_use item that lacks an id or a name
RECURSIVE ScanFirstUsable(_)
ScanFirstUsable(items) ==
    IF items = <<>> THEN [toolUseID |-> "", toolName |-> ""]
    ELSE LET item == Head(items)
         IN  IF item.t # "object" THEN ScanFirstUsable(Tail(items))
             ELSE LET blockType == AsString(item.v, "type")
                  IN  IF ~blockType.ok \/ blockType.val # "tool_use"
                      THEN ScanFirstUsable(Tail(items))
                      ELSE IF AsString(item.v, "id").val = "" \/ AsString(item.v, "name").val = ""
                      THEN ScanFirstUsable(Tail(items))
                      ELSE [toolUseID |-> AsString(item.v, "id").val,
                            toolName |-> AsString(item.v, "name").val]

\* the loop over content that looks for the tool use: it stops at the first
\* item that is an object of type "tool_use" and reads its id and name
\* (either is "" when missing or not a string).
RECURSIVE ScanToolUse(_)
ScanToolUse(items) ==
    IF items = <<>> THEN [toolUseID |-> "", toolName |-> ""]
    ELSE LET item == Head(items)
         IN  IF item.t # "object" THEN ScanToolUse(Tail(items))
             ELSE LET blockType == AsString(item.v, "type")
                  IN  IF ~blockType.ok \/ blockType.val # "tool_use"
                      THEN ScanToolUse(Tail(items))
                      ELSE [toolUseID |-> AsString(item.v, "id").val,
                            toolName |-> AsString(item.v, "name").val]

JapanToolResult ==
    "I've analyzed the thought \"Japan is cool\":\n\nStrengths:\n- Simple and clear statement of opinion\n- Easy to understand sentiment \n- Broadly relatable to many audiences\n\nConcerns:\n- Very general statement lacking specific details\n- No supporting evidence or reasoning provided\n- Could be perceived as overly simplistic\n\nRecommendation:\n- Consider adding specific aspects of Japan that are \"cool\"\n- Provide personal experiences or facts that support this opinion\n- Consider cultural context and avoid generalizations"

DefaultToolResult ==
    "I've analyzed the thought. Here are my observations:\n\nStrengths:\n- Clear statement of opinion\n- Easy to understand the main point\n\nConcerns:\n- Limited supporting details or evidence\n- Could benefit from more specific examples\n\nRecommendation:\n- Add specific supporting details\n- Consider different perspectives\n- Clarify reasoning behind the thought"

\* toolResult
ToolResult(th) == IF th = "Japan is cool" THEN JapanToolResult ELSE DefaultToolResult

ToolResultBlock(id, text) ==
    JObj([type |-> JStr("tool_result"), tool_use_id |-> JStr(id), content |-> JStr(text)])

\* FollowUpRequestMap answering every tool_use item of the content, each
\* with its own tool_result
FollowUpResultPerToolUse(cfg, prompt, items, id, text) ==
    LET uses == SelectSeq(items, LAMBDA b : b.t = "object" /\ AsString(b.v, "type").val = "tool_use")
    IN  JObj([model |-> JStr(cfg.Model),
              max_tokens |-> JNum(cfg.MaxTokens),
              messages |->
                  JArr(<<Message("user", JStr(prompt)),
                         Message("assistant", JArr(items)),
                         Message("user",
                                 JArr([k \in 1..Len(uses) |->
                                          ToolResultBlock(AsString(uses[k].v, "id").val, text)]))>>)])

\* FollowUpRequestMap echoing only the tool_use items of the content
FollowUpToolUseOnly(cfg, prompt, items, id, text) ==
    LET uses == SelectSeq(items, LAMBDA b : b.t = "object" /\ AsString(b.v, "type").val = "tool_use")
    IN  JObj([model |-> JStr(cfg.Model),
              max_tokens |-> JNum(cfg.MaxTokens),
              messages |->
                  JArr(<<Message("user", JStr(prompt)),
                         Message("assistant", JArr(uses)),
                         Message("user", JArr(<<ToolResultBlock(id, text)>>))>>)])

\* FollowUpRequestMap with the tools of the initial request
FollowUpWithTools(cfg, prompt, items, id, text) ==
    JObj([model |-> JStr(cfg.Model),
          max_tokens |-> JNum(cfg.MaxTokens),
          messages |->
              JArr(<<Message("user", JStr(prompt)),
                     Message("assistant", JArr(items)),
                     Message("user", JArr(<<ToolResultBlock(id, text)>>))>>),
          tools |-> JArr(<<ThinkToolMap>>)])

\* followUpRequestMap
FollowUpRequestMap(cfg, prompt, items, id, text) ==
    JObj([model |-> JStr(cfg.Model),
          max_tokens |-> JNum(cfg.MaxTokens),
          messages |->
              JArr(<<Message("user", JStr(prompt)),
                     Message("assistant", JArr(items)),
                     Message("user", JArr(<<ToolResultBlock(id, text)>>))>>)])

\* ExtractText without the newline after each text
RECURSIVE ExtractTextNoNewline(_)
ExtractTextNoNewline(items) ==
    IF items = <<>> THEN ""
    ELSE LET item == Head(items)
             piece ==
                 IF item.t # "object" THEN ""
                 ELSE LET blockType == AsString(item.v, "type")
                          text == AsString(item.v, "text")
                      IN  IF ~blockType.ok \/ blockType.val # "text" THEN ""
                          ELSE IF text.ok THEN text.val ELSE ""
         IN  piece \o ExtractTextNoNewline(Tail(items))

\* ExtractText without the test of the block's type
RECURSIVE ExtractTextAnyType(_)
ExtractTextAnyType(items) ==
    IF items = <<>> THEN ""
    ELSE LET item == Head(items)
             piece ==
                 IF item.t # "object" THEN ""
                 ELSE LET text == AsString(item.v, "text")
                      IN  IF text.ok THEN text.val \o "\n" ELSE ""
         IN  piece \o ExtractTextAnyType(Tail(items))

\* the loop of formatThinkResponse that builds textContent
RECURSIVE ExtractText(_)
ExtractText(items) ==
    IF items = <<>> THEN ""
    ELSE LET item == Head(items)
             piece ==
                 IF item.t # "object" THEN ""
                 ELSE LET blockType == AsString(item.v, "type")
                          text == AsString(item.v, "text")
                      IN  IF ~blockType.ok \/ blockType.val # "text" THEN ""
                          ELSE IF text.ok THEN text.val \o "\n" ELSE ""
         IN  piece \o ExtractText(Tail(items))

ThinkResponse(raw, text) == [Raw |-> raw, Content |-> text]

\* a (response, error) pair returned by AnalyzeThought
Returns(resp, err) == [resp |-> resp, err |-> err]

\* formatThinkResponse returning, with the error, a response without text
formatThinkResponsePartial(responseMap) ==
    LET c == AsArray(responseMap, "content")
    IN  IF ~c.ok
        THEN Returns(Some(ThinkResponse(responseMap, "")),
                     Some(NewError("couldn't extract content from response")))
        ELSE Returns(Some(ThinkResponse(responseMap, ExtractText(c.val))), Nil)

\* formatThinkResponse taking a missing or malformed content for an empty one
formatThinkResponseLenient(responseMap) ==
    LET c == AsArray(responseMap, "content")
    IN  IF ~c.ok
        THEN Returns(Some(ThinkResponse(responseMap, "")), Nil)
        ELSE Returns(Some(ThinkResponse(responseMap, ExtractText(c.val))), Nil)

formatThinkResponse(responseMap) ==
    LET c == AsArray(responseMap, "content")
    IN  IF ~c.ok
        THEN Returns(Nil, Some(NewError("couldn't extract content from response")))
        ELSE Returns(Some(ThinkResponse(responseMap, ExtractText(c.val))), Nil)

(***************************************************************************)
(* State.  One entry per invocation of AnalyzeThought on the one           *)
(* ThinkService and its one client.                                        *)
(***************************************************************************)
VARIABLES
    pc,          \* where each invocation is
    thought,     \* its thought argument
    config,      \* its config argument
    env,         \* the process's ANTHROPIC_API_KEY
    userPrompt,  \* its local userPrompt
    content,     \* its local content (the initial response's content)
    sent,        \* the request maps it has passed to SendRequest, in order
    received,    \* what SendRequest has returned to it, in order
    ret,         \* what it has returned
    stdout,      \* what has been printed to standard output
    ctx,         \* its ctx argument
    passed,      \* the contexts it has passed to SendRequest, in order
    expired      \* the contexts whose deadline has elapsed

(***************************************************************************)
(* State of the program around the service: the command line run           *)
(* (CLI.runWithExit and its interactive loop), the files FileStorage       *)
(* reads and writes, and one HTTP exchange of ClaudeAPIClient.SendRequest. *)
(***************************************************************************)
VARIABLES
    flags,       \* the parsed command line
    stdin,       \* standard input: the text not yet read, whether its writer
                 \* has closed it, whether reading it fails
    typed,       \* the chunks written to standard input so far, in order
    cliPc,       \* where the command line run is
    input,       \* the interactive loop's local input
    cliCalls,    \* the calls made to thinkService.AnalyzeThought, in order
    console,     \* what the run has printed to standard output, in order
    fatal,       \* the message of log.Fatalf, once the run has ended by it
    files,       \* the file system: what is at each path
    ops,         \* the FileStorage calls made and what they returned, in order
    exchange,    \* what the transport and the server do with the request
    result       \* what SendRequest returned for it

hostVars == <<flags, stdin, typed, cliPc, input, cliCalls, console, fatal, files, ops,
              exchange, result>>

serviceVars == <<pc, thought, config, env, toolTags, userPrompt, content, sent, received, ret,
                 stdout, ctx, passed, expired>>

Paths == {"in.txt", "out.txt", "dir", "missing.txt"}

NoFile == [kind |-> "none", data |-> ""]

Directory == [kind |-> "dir", data |-> ""]

RegularFile(data) == [kind |-> "file", data |-> data]

\* the -timeout flag's default, in seconds
DefaultTimeout == 30

\* the flag package's defaults (the flags the model follows)
DefaultFlags ==
    [version |-> FALSE, help |-> FALSE, input |-> "", args |-> <<>>,
     interactive |-> FALSE, output |-> "", format |-> "text", verbose |-> FALSE,
     timeout |-> DefaultTimeout, model |-> "claude-3-7-sonnet-20250219", maxTokens |-> 1024]

NoExchange == [failure |-> Nil, status |-> 0, body |-> "", readFails |-> FALSE]

\* no command line run
CLIIdle ==
    /\ flags = DefaultFlags
    /\ stdin = [text |-> "", closed |-> FALSE, broken |-> FALSE]
    /\ typed = <<>>
    /\ cliPc = "Unused"
    /\ input = ""
    /\ cliCalls = <<>>
    /\ console = <<>>
    /\ fatal = Nil

\* no file and no FileStorage call
StorageIdle ==
    /\ files = [p \in Paths |-> NoFile]
    /\ ops = <<>>

\* no exchange
ClientIdle ==
    /\ exchange = NoExchange
    /\ result = Nil

\* the state of these variables in the runs of the service alone
HostIdle == CLIIdle /\ StorageIdle /\ ClientIdle

vars == <<pc, thought, config, env, toolTags, hostVars, userPrompt, content, sent, received, ret, stdout,
          ctx, passed, expired>>

NotReturned == Returns(Nil, Nil)

\* context.WithTimeout(context.Background(), timeout), as made for invocation i
WithTimeout(i, timeout) == [caller |-> i, deadline |-> timeout]

\* the invocations that are run: one under Spec
Running == {1}

Init ==
    /\ pc = [i \in Invocations |-> IF i \in Running THEN "Start" ELSE "Unused"]
    /\ thought \in [Invocations -> Thoughts]
    /\ config \in [Invocations -> Configs]
    /\ \A i \in Invocations \ Running :
          /\ thought[i] = "Launch it"
          /\ config[i] = [APIKey |-> "", Model |-> "test-model", MaxTokens |-> 1024,
                          ThoughtPrompt |-> ""]
    /\ env \in EnvKeys
    /\ toolTags \in BOOLEAN
    /\ HostIdle
    /\ userPrompt = [i \in Invocations |-> ""]
    /\ content = [i \in Invocations |-> <<>>]
    /\ sent = [i \in Invocations |-> <<>>]
    /\ received = [i \in Invocations |-> <<>>]
    /\ ret = [i \in Invocations |-> NotReturned]
    /\ stdout = <<>>
    /\ ctx = [i \in Invocations |-> WithTimeout(i, DefaultTimeout)]
    /\ passed = [i \in Invocations |-> <<>>]
    /\ expired = {}

\* return resp, err
Return(i, r) ==
    /\ pc' = [pc EXCEPT ![i] = "Returned"]
    /\ ret' = [ret EXCEPT ![i] = r]

\* s.apiClient.SendRequest(ctx, requestMap): the call is made and the
\* invocation waits for it to return
SendRequest(i, c, requestMap, waiting) ==
    /\ sent' = [sent EXCEPT ![i] = Append(@, requestMap)]
    /\ passed' = [passed EXCEPT ![i] = Append(@, c)]
    /\ pc' = [pc EXCEPT ![i] = waiting]

\* ResolveAPIKey without the look at the environment
ResolveAPIKeyConfigOnly(cfg, environ) == cfg.APIKey

\* the API key of the config, or of the environment when that is empty
ResolveAPIKey(cfg, environ) == IF cfg.APIKey = "" THEN environ ELSE cfg.APIKey

\* Start keeping the prompt in a field of the service, which every
\* invocation then reads
StartSharedPrompt(i) ==
    /\ pc[i] = "Start"
    /\ LET apiKey == ResolveAPIKey(config[i], env)
           prompt == ComposePrompt(thought[i], config[i])
           initialRequestMap == InitialRequestMap(config[i], prompt)
       IN  IF apiKey = ""
           THEN /\ Return(i, Returns(Nil, Some(NewError(
                    "API key not found. Set it using the -apikey flag or ANTHROPIC_API_KEY environment variable"))))
                /\ UNCHANGED <<userPrompt, sent, passed, stdout>>
           ELSE /\ userPrompt' = [j \in Invocations |-> prompt]
                /\ stdout' = Append(stdout, <<"API Request: ", initialRequestMap>>)
                /\ SendRequest(i, ctx[i], initialRequestMap, "AwaitingInitial")
                /\ UNCHANGED ret
    /\ UNCHANGED <<thought, config, env, toolTags, hostVars, content, received, ctx, expired>>

\* infra.NewClaudeAPIClient(httpClient, apiKey)
NewClaudeAPIClient(apiKey) ==
    [APIKey |-> apiKey, BaseURL |-> "https://api.anthropic.com/v1/messages"]

\* main: the client every request of the process goes through, made with
\* the key of the environment before the flags are parsed
apiClient == NewClaudeAPIClient(env)

\* the headers ClaudeAPIClient.SendRequest sets on a request
Headers(c) ==
    ("Content-Type" :> "application/json") @@ ("Accept" :> "application/json")
        @@ ("x-api-key" :> c.APIKey) @@ ("anthropic-version" :> "2023-06-01")

\* Start putting the resolved API key into the request, as a field of its own
StartSendsKey(i) ==
    /\ pc[i] = "Start"
    /\ LET apiKey == ResolveAPIKey(config[i], env)
           prompt == ComposePrompt(thought[i], config[i])
           initialRequestMap ==
               JObj(InitialRequestMap(config[i], prompt).v @@ ("api_key" :> JStr(apiKey)))
       IN  IF apiKey = ""
           THEN /\ Return(i, Returns(Nil, Some(NewError(
                    "API key not found. Set it using the -apikey flag or ANTHROPIC_API_KEY environment variable"))))
                /\ UNCHANGED <<userPrompt, sent, passed, stdout>>
           ELSE /\ userPrompt' = [userPrompt EXCEPT ![i] = prompt]
                /\ stdout' = Append(stdout, <<"API Request: ", initialRequestMap>>)
                /\ SendRequest(i, ctx[i], initialRequestMap, "AwaitingInitial")
                /\ UNCHANGED ret
    /\ UNCHANGED <<thought, config, env, toolTags, hostVars, content, received, ctx, expired>>

\* From entry to the first SendRequest call.
Start(i) ==
    /\ pc[i] = "Start"
    /\ LET apiKey == ResolveAPIKey(config[i], env)
           prompt == ComposePrompt(thought[i], config[i])
           initialRequestMap == InitialRequestMap(config[i], prompt)
       IN  IF apiKey = ""
           THEN /\ Return(i, Returns(Nil, Some(NewError(
                    "API key not found. Set it using the -apikey flag or ANTHROPIC_API_KEY environment variable"))))
                /\ UNCHANGED <<userPrompt, sent, passed, stdout>>
           ELSE /\ userPrompt' = [userPrompt EXCEPT ![i] = prompt]
                /\ stdout' = Append(stdout, <<"API Request: ", initialRequestMap>>)
                /\ SendRequest(i, ctx[i], initialRequestMap, "AwaitingInitial")
                /\ UNCHANGED ret
    /\ UNCHANGED <<thought, config, env, toolTags, hostVars, content, received, ctx, expired>>

\* InitialStep failing when the response has no stop_reason
InitialStepRequiresStopReason(o) ==
    IF o.err # Nil
    THEN [done |-> TRUE, items |-> <<>>,
          r |-> Returns(Nil, Some(ErrorfW("initial request failed", o.err[1])))]
    ELSE LET decoded == Unmarshal(o.bytes[1])
         IN  IF decoded.err # Nil
             THEN [done |-> TRUE, items |-> <<>>,
                   r |-> Returns(Nil, Some(ErrorfV("failed to parse initial response",
                                                   decoded.err[1])))]
             ELSE LET stopReason == AsString(decoded.map, "stop_reason")
                      c == AsArray(decoded.map, "content")
                  IN  IF ~stopReason.ok
                      THEN [done |-> TRUE, items |-> <<>>,
                            r |-> Returns(Nil, Some(NewError("stop_reason field missing or invalid")))]
                      ELSE IF stopReason.val # "tool_use"
                      THEN [done |-> TRUE, items |-> <<>>,
                            r |-> formatThinkResponse(decoded.map)]
                      ELSE IF ~c.ok
                      THEN [done |-> TRUE, items |-> <<>>,
                            r |-> Returns(Nil, Some(NewError("content field missing or invalid")))]
                      ELSE [done |-> FALSE, items |-> c.val, r |-> NotReturned]

\* InitialStep without the test of stop_reason: any content is scanned for a tool use
InitialStepIgnoresStopReason(o) ==
    IF o.err # Nil
    THEN [done |-> TRUE, items |-> <<>>,
          r |-> Returns(Nil, Some(ErrorfW("initial request failed", o.err[1])))]
    ELSE LET decoded == Unmarshal(o.bytes[1])
         IN  IF decoded.err # Nil
             THEN [done |-> TRUE, items |-> <<>>,
                   r |-> Returns(Nil, Some(ErrorfV("failed to parse initial response",
                                                   decoded.err[1])))]
             ELSE LET c == AsArray(decoded.map, "content")
                  IN  IF ~c.ok
                      THEN [done |-> TRUE, items |-> <<>>,
                            r |-> Returns(Nil, Some(NewError("content field missing or invalid")))]
                      ELSE [done |-> FALSE, items |-> c.val, r |-> NotReturned]

\* What follows the return of the first SendRequest call, up to the scan
\* for the tool use: the (response, error) returned, or the content to scan.
InitialStep(o) ==
    IF o.err # Nil
    THEN [done |-> TRUE, items |-> <<>>,
          r |-> Returns(Nil, Some(ErrorfW("initial request failed", o.err[1])))]
    ELSE LET decoded == Unmarshal(o.bytes[1])
         IN  IF decoded.err # Nil
             THEN [done |-> TRUE, items |-> <<>>,
                   r |-> Returns(Nil, Some(ErrorfV("failed to parse initial response",
                                                   decoded.err[1])))]
             ELSE LET stopReason == AsString(decoded.map, "stop_reason")
                      c == AsArray(decoded.map, "content")
                  IN  IF ~stopReason.ok \/ stopReason.val # "tool_use"
                      THEN [done |-> TRUE, items |-> <<>>,
                            r |-> formatThinkResponse(decoded.map)]
                      ELSE IF ~c.ok
                      THEN [done |-> TRUE, items |-> <<>>,
                            r |-> Returns(Nil, Some(NewError("content field missing or invalid")))]
                      ELSE [done |-> FALSE, items |-> c.val, r |-> NotReturned]

\* The deadline of invocation i's context elapses while the invocation runs.
DeadlineElapses(i) ==
    /\ pc[i] \in {"Start", "AwaitingInitial", "ToolUseDetected", "AwaitingFollowUp"}
    /\ ctx[i] \notin expired
    /\ expired' = expired \cup {ctx[i]}
    /\ UNCHANGED <<pc, thought, config, env, toolTags, hostVars, userPrompt, content, sent, received, ret,
                   stdout, ctx, passed>>

\* what the client returns for a call whose context's deadline has elapsed:
\* the error of http.Client.Do, wrapped
DeadlineExceeded ==
    ErrorfW("HTTP request failed",
            NewError("Post \"https://api.anthropic.com/v1/messages\": context deadline exceeded"))

\* what a client can return for the call-th call of a run within the
\* deadline: the scenarios' client the replies of the scenarios, any other
\* client whatever the alphabets hold
Replies(client, call) ==
    IF client = "scenarios"
    THEN IF call = 1 THEN ScenarioInitialOutcomes ELSE ScenarioFinalOutcomes
    ELSE IF call = 1 THEN InitialOutcomes ELSE FinalOutcomes

\* what invocation i's last SendRequest call can return
Offered(i, client) ==
    IF passed[i][Len(passed[i])] \in expired
    THEN { [bytes |-> Nil, err |-> Some(DeadlineExceeded)] }
    ELSE Replies(client, Len(passed[i]))

\* The first SendRequest call, made to client, returns o.
InitialReturnsFrom(i, client) ==
    /\ pc[i] = "AwaitingInitial"
    /\ \E o \in Offered(i, client) :
          /\ received' = [received EXCEPT ![i] = Append(@, o)]
          /\ LET step == InitialStep(o)
             IN  IF step.done
                 THEN Return(i, step.r) /\ UNCHANGED content
                 ELSE /\ content' = [content EXCEPT ![i] = step.items]
                      /\ pc' = [pc EXCEPT ![i] = "ToolUseDetected"]
                      /\ UNCHANGED ret
    /\ UNCHANGED <<thought, config, env, toolTags, hostVars, userPrompt, sent, stdout, ctx, passed, expired>>

InitialReturns(i) == InitialReturnsFrom(i, "any")

\* BuildFollowUp without the test of toolUseID and toolName
BuildFollowUpUnchecked(i) ==
    /\ pc[i] = "ToolUseDetected"
    /\ LET found == ScanToolUse(content[i])
       IN  SendRequest(i, ctx[i],
                       FollowUpRequestMap(config[i], userPrompt[i], content[i],
                                          found.toolUseID, ToolResult(thought[i])),
                       "AwaitingFollowUp")
    /\ UNCHANGED <<thought, config, env, toolTags, hostVars, userPrompt, content, received, stdout, ret,
                   ctx, expired>>

\* BuildFollowUp giving the follow-up call a context of its own, with a new deadline
BuildFollowUpRenewsDeadline(i) ==
    /\ pc[i] = "ToolUseDetected"
    /\ LET found == ScanToolUse(content[i])
           toolResult == ToolResult(thought[i])
           followUpRequestMap ==
               FollowUpRequestMap(config[i], userPrompt[i], content[i],
                                  found.toolUseID, toolResult)
       IN  IF found.toolUseID = "" \/ found.toolName = ""
           THEN /\ Return(i, Returns(Nil, Some(NewError("couldn't find valid tool use block"))))
                /\ UNCHANGED <<sent, passed>>
           ELSE /\ SendRequest(i, WithTimeout(i, DefaultTimeout + DefaultTimeout),
                               followUpRequestMap, "AwaitingFollowUp")
                /\ UNCHANGED ret
    /\ UNCHANGED <<thought, config, env, toolTags, hostVars, userPrompt, content, received, stdout, ctx, expired>>

\* BuildFollowUp giving the special text only in the first analysis the
\* process has started
BuildFollowUpFirstAnalysis(i) ==
    /\ pc[i] = "ToolUseDetected"
    /\ LET found == ScanToolUse(content[i])
           toolResult == IF Len(stdout) <= 1 THEN ToolResult(thought[i]) ELSE DefaultToolResult
           followUpRequestMap ==
               FollowUpRequestMap(config[i], userPrompt[i], content[i],
                                  found.toolUseID, toolResult)
       IN  IF found.toolUseID = "" \/ found.toolName = ""
           THEN /\ Return(i, Returns(Nil, Some(NewError("couldn't find valid tool use block"))))
                /\ UNCHANGED <<sent, passed>>
           ELSE /\ SendRequest(i, ctx[i], followUpRequestMap, "AwaitingFollowUp")
                /\ UNCHANGED ret
    /\ UNCHANGED <<thought, config, env, toolTags, hostVars, userPrompt, content, received, stdout, ctx, expired>>

\* BuildFollowUp answering only the think tool: a tool_use block with
\* another name is not a valid one
BuildFollowUpThinkOnly(i) ==
    /\ pc[i] = "ToolUseDetected"
    /\ LET found == ScanToolUse(content[i])
           toolResult == ToolResult(thought[i])
           followUpRequestMap ==
               FollowUpRequestMap(config[i], userPrompt[i], content[i],
                                  found.toolUseID, toolResult)
       IN  IF found.toolUseID = "" \/ found.toolName # "think"
           THEN /\ Return(i, Returns(Nil, Some(NewError("couldn't find valid tool use block"))))
                /\ UNCHANGED <<sent, passed>>
           ELSE /\ SendRequest(i, ctx[i], followUpRequestMap, "AwaitingFollowUp")
                /\ UNCHANGED ret
    /\ UNCHANGED <<thought, config, env, toolTags, hostVars, userPrompt, content, received, stdout, ctx, expired>>

\* The scan for the tool use, the tool result, and the second SendRequest
\* call with the follow-up request.
BuildFollowUp(i) ==
    /\ pc[i] = "ToolUseDetected"
    /\ LET found == ScanToolUse(content[i])
           toolResult == ToolResult(thought[i])
           followUpRequestMap ==
               FollowUpRequestMap(config[i], userPrompt[i], content[i],
                                  found.toolUseID, toolResult)
       IN  IF found.toolUseID = "" \/ found.toolName = ""
           THEN /\ Return(i, Returns(Nil, Some(NewError("couldn't find valid tool use block"))))
                /\ UNCHANGED <<sent, passed>>
           ELSE /\ SendRequest(i, ctx[i], followUpRequestMap, "AwaitingFollowUp")
                /\ UNCHANGED ret
    /\ UNCHANGED <<thought, config, env, toolTags, hostVars, userPrompt, content, received, stdout, ctx, expired>>

\* FinalStep with the error tag of the initial request
FinalStepInitialTag(o) ==
    IF o.err # Nil
    THEN Returns(Nil, Some(ErrorfW("initial request failed", o.err[1])))
    ELSE LET decoded == Unmarshal(o.bytes[1])
         IN  IF decoded.err # Nil
             THEN Returns(Nil, Some(ErrorfV("failed to parse final response", decoded.err[1])))
             ELSE formatThinkResponse(decoded.map)

\* FinalStep testing the stop_reason of the final response as that of the
\* initial one is tested: a final response that asks for a tool is an error
FinalStepChecksStopReason(o) ==
    IF o.err # Nil
    THEN Returns(Nil, Some(ErrorfW("follow-up request failed", o.err[1])))
    ELSE LET decoded == Unmarshal(o.bytes[1])
             stopReason == AsString(decoded.map, "stop_reason")
         IN  IF decoded.err # Nil
             THEN Returns(Nil, Some(ErrorfV("failed to parse final response", decoded.err[1])))
             ELSE IF stopReason.ok /\ stopReason.val = "tool_use"
             THEN Returns(Nil, Some(NewError("couldn't find valid tool use block")))
             ELSE formatThinkResponse(decoded.map)

\* What follows the return of the second SendRequest call.
FinalStep(o) ==
    IF o.err # Nil
    THEN Returns(Nil, Some(ErrorfW("follow-up request failed", o.err[1])))
    ELSE LET decoded == Unmarshal(o.bytes[1])
         IN  IF decoded.err # Nil
             THEN Returns(Nil, Some(ErrorfV("failed to parse final response", decoded.err[1])))
             ELSE formatThinkResponse(decoded.map)

\* FollowUpReturns sending the follow-up request again after a failed call
FollowUpRetries(i) ==
    /\ pc[i] = "AwaitingFollowUp"
    /\ \E o \in Offered(i, "any") :
          /\ received' = [received EXCEPT ![i] = Append(@, o)]
          /\ IF o.err # Nil /\ Len(sent[i]) < 3
             THEN /\ sent' = [sent EXCEPT ![i] = Append(@, sent[i][2])]
                  /\ passed' = [passed EXCEPT ![i] = Append(@, ctx[i])]
                  /\ UNCHANGED <<pc, ret>>
             ELSE Return(i, FinalStep(o)) /\ UNCHANGED <<sent, passed>>
    /\ UNCHANGED <<thought, config, env, toolTags, hostVars, userPrompt, content, stdout, ctx, expired>>

\* FollowUpReturns putting the text of the initial response before the text
\* of the final one
FollowUpKeepsInitialText(i) ==
    /\ pc[i] = "AwaitingFollowUp"
    /\ \E o \in Offered(i, "any") :
          /\ received' = [received EXCEPT ![i] = Append(@, o)]
          /\ LET r == FinalStep(o)
             IN  Return(i, IF r.resp = Nil THEN r
                           ELSE Returns(Some(ThinkResponse(r.resp[1].Raw,
                                    ExtractText(content[i]) \o r.resp[1].Content)), Nil))
    /\ UNCHANGED <<thought, config, env, toolTags, hostVars, userPrompt, content, sent, stdout,
                   ctx, passed, expired>>

\* FollowUpReturns trying the follow-up again after every failed call
FollowUpRetriesUntilSuccess(i, client) ==
    /\ pc[i] = "AwaitingFollowUp"
    /\ \E o \in Offered(i, client) :
          IF o.err # Nil
          THEN /\ pc' = [pc EXCEPT ![i] = "ToolUseDetected"]
               /\ sent' = [sent EXCEPT ![i] = SubSeq(@, 1, 1)]
               /\ passed' = [passed EXCEPT ![i] = SubSeq(@, 1, 1)]
               /\ UNCHANGED <<received, ret>>
          ELSE /\ received' = [received EXCEPT ![i] = Append(@, o)]
               /\ Return(i, FinalStep(o))
               /\ UNCHANGED <<sent, passed>>
    /\ UNCHANGED <<thought, config, env, toolTags, hostVars, userPrompt, content, stdout, ctx, expired>>

\* The second SendRequest call, made to client, returns o.
FollowUpReturnsFrom(i, client) ==
    /\ pc[i] = "AwaitingFollowUp"
    /\ \E o \in Offered(i, client) :
          /\ received' = [received EXCEPT ![i] = Append(@, o)]
          /\ Return(i, FinalStep(o))
    /\ UNCHANGED <<thought, config, env, toolTags, hostVars, userPrompt, content, sent, stdout,
                   ctx, passed, expired>>

FollowUpReturns(i) == FollowUpReturnsFrom(i, "any")

Next ==
    \E i \in Invocations :
        \/ Start(i)
        \/ InitialReturns(i)
        \/ BuildFollowUp(i)
        \/ FollowUpReturns(i)
        \/ DeadlineElapses(i)

Spec == Init /\ [][Next]_vars

\* The same steps against a client that returns the replies of the scenarios.
ScenarioInitialReturns(i) == InitialReturnsFrom(i, "scenarios")

ScenarioFollowUpReturns(i) == FollowUpReturnsFrom(i, "scenarios")

ScenarioNext ==
    \E i \in Invocations :
        \/ Start(i)
        \/ ScenarioInitialReturns(i)
        \/ BuildFollowUp(i)
        \/ ScenarioFollowUpReturns(i)
        \/ DeadlineElapses(i)

\* One run against the scenarios' client, with every step of the invocation
\* taken once it can be: the code of AnalyzeThought runs on, and every
\* SendRequest call returns.
FairSpec ==
    /\ Init
    /\ [][ScenarioNext]_vars
    /\ \A i \in Invocations :
          /\ WF_vars(Start(i))
          /\ WF_vars(ScenarioInitialReturns(i))
          /\ WF_vars(BuildFollowUp(i))
          /\ WF_vars(ScenarioFollowUpReturns(i))

\* Two invocations of AnalyzeThought on the one service and client, each
\* with its own thought, config and context, their steps interleaved.
ConcurrentInit ==
    /\ pc = [i \in Invocations |-> "Start"]
    /\ thought \in [Invocations -> Thoughts]
    /\ config \in [Invocations -> Configs]
    /\ env \in EnvKeys
    /\ toolTags \in BOOLEAN
    /\ HostIdle
    /\ userPrompt = [i \in Invocations |-> ""]
    /\ content = [i \in Invocations |-> <<>>]
    /\ sent = [i \in Invocations |-> <<>>]
    /\ received = [i \in Invocations |-> <<>>]
    /\ ret = [i \in Invocations |-> NotReturned]
    /\ stdout = <<>>
    /\ ctx = [i \in Invocations |-> WithTimeout(i, DefaultTimeout)]
    /\ passed = [i \in Invocations |-> <<>>]
    /\ expired = {}

ConcurrentSpec == ConcurrentInit /\ [][ScenarioNext]_vars

\* the API keys of the runs that are compared with each other
ComparedKeys == {"", "test-key", "other-key"}

\* Two invocations with the same thought and with configs that differ at
\* most in the API key.
CredentialInit ==
    /\ pc = [i \in Invocations |-> "Start"]
    /\ thought \in [Invocations -> Thoughts]
    /\ thought[1] = thought[2]
    /\ config \in [Invocations -> [APIKey : ComparedKeys, Model : {"test-model"},
                                   MaxTokens : {1024}, ThoughtPrompt : ThoughtPrompts]]
    /\ config[1].ThoughtPrompt = config[2].ThoughtPrompt
    /\ env \in EnvKeys
    /\ toolTags \in BOOLEAN
    /\ HostIdle
    /\ userPrompt = [i \in Invocations |-> ""]
    /\ content = [i \in Invocations |-> <<>>]
    /\ sent = [i \in Invocations |-> <<>>]
    /\ received = [i \in Invocations |-> <<>>]
    /\ ret = [i \in Invocations |-> NotReturned]
    /\ stdout = <<>>
    /\ ctx = [i \in Invocations |-> WithTimeout(i, DefaultTimeout)]
    /\ passed = [i \in Invocations |-> <<>>]
    /\ expired = {}

CredentialSpec == CredentialInit /\ [][ScenarioNext]_vars

(***************************************************************************)
(* FileStorage.                                                            *)
(***************************************************************************)
\* WriteToFile without the truncation: the data is appended to what the file holds
WriteToFileAppending(fs, filePath, data, accepted) ==
    IF fs[filePath].kind = "dir"
    THEN [files |-> fs,
          err |-> Some(ErrorfW("failed to write file",
                               NewError("open " \o filePath \o ": is a directory")))]
    ELSE IF accepted < Len(data)
    THEN [files |-> [fs EXCEPT ![filePath] = RegularFile(SubSeq(data, 1, accepted))],
          err |-> Some(ErrorfW("failed to write file",
                               NewError("write " \o filePath \o ": no space left on device")))]
    ELSE [files |-> [fs EXCEPT ![filePath] = RegularFile(fs[filePath].data \o data)], err |-> Nil]

\* WriteToFile: os.WriteFile opens the path for writing, creating or
\* truncating the file, and writes the bytes of the content.  Opening fails when
\* the path is a directory.  accepted is the number of bytes the device
\* takes: fewer than all leaves the file with what was written and is an
\* error.
WriteToFile(fs, filePath, data, accepted) ==
    IF fs[filePath].kind = "dir"
    THEN [files |-> fs,
          err |-> Some(ErrorfW("failed to write file",
                               NewError("open " \o filePath \o ": is a directory")))]
    ELSE IF accepted < Len(data)
    THEN [files |-> [fs EXCEPT ![filePath] = RegularFile(SubSeq(data, 1, accepted))],
          err |-> Some(ErrorfW("failed to write file",
                               NewError("write " \o filePath \o ": no space left on device")))]
    ELSE [files |-> [fs EXCEPT ![filePath] = RegularFile(data)], err |-> Nil]

\* ReadFromFile: os.ReadFile, the file's bytes as a string
ReadFromFile(fs, filePath) ==
    CASE fs[filePath].kind = "none" ->
            [data |-> "",
             err |-> Some(ErrorfW("failed to read file",
                                  NewError("open " \o filePath \o ": no such file or directory")))]
      [] fs[filePath].kind = "dir" ->
            [data |-> "",
             err |-> Some(ErrorfW("failed to read file",
                                  NewError("read " \o filePath \o ": is a directory")))]
      [] OTHER -> [data |-> fs[filePath].data, err |-> Nil]

(***************************************************************************)
(* Formatter.                                                              *)
(***************************************************************************)
\* the keys of the documents of the model in the order encoding/json writes
\* the keys of a map: sorted
KeyOrder ==
    <<"content", "id", "input", "name", "query", "role", "stop_reason", "text", "thought",
      "tool_use_id", "type">>

\* the escape encoding/json writes for a character of a string
EscapeChar(ch) ==
    CASE ch = "\"" -> "\\\""
      [] ch = "\\" -> "\\\\"
      [] ch = "\n" -> "\\n"
      [] ch = "<" -> "\\u003c"
      [] ch = ">" -> "\\u003e"
      [] ch = "&" -> "\\u0026"
      [] OTHER -> ch

\* each character of s escaped (the string is taken apart by halves)
RECURSIVE Escape(_)
Escape(s) ==
    IF Len(s) = 0 THEN ""
    ELSE IF Len(s) = 1 THEN EscapeChar(s)
    ELSE Escape(SubSeq(s, 1, Len(s) \div 2)) \o Escape(SubSeq(s, Len(s) \div 2 + 1, Len(s)))

Quote(s) == "\"" \o Escape(s) \o "\""

RECURSIVE Indentation(_)
Indentation(depth) == IF depth = 0 THEN "" ELSE "  " \o Indentation(depth - 1)

RECURSIVE Encode(_, _), EncodeItems(_, _), EncodeFields(_, _, _)
\* the elements of an array, one per line, separated by commas
EncodeItems(items, depth) ==
    IF items = <<>> THEN ""
    ELSE Indentation(depth) \o Encode(Head(items), depth)
             \o (IF Len(items) > 1 THEN ",\n" ELSE "")
             \o EncodeItems(Tail(items), depth)

\* the fields of an object under the given keys, one per line
EncodeFields(m, keys, depth) ==
    IF keys = <<>> THEN ""
    ELSE Indentation(depth) \o Quote(Head(keys)) \o ": " \o Encode(m[Head(keys)], depth)
             \o (IF Len(keys) > 1 THEN ",\n" ELSE "")
             \o EncodeFields(m, Tail(keys), depth)

\* the indented encoding of a value that stands at the given depth
Encode(value, depth) ==
    CASE value.t = "string" -> Quote(value.v)
      [] value.t = "number" -> ToString(value.v)
      [] value.t = "array" ->
            IF value.v = <<>> THEN "[]"
            ELSE "[\n" \o EncodeItems(value.v, depth + 1) \o "\n" \o Indentation(depth) \o "]"
      [] value.t = "object" ->
            LET keys == SelectSeq(KeyOrder, LAMBDA k : k \in DOMAIN value.v)
            IN  IF keys = <<>> THEN "{}"
                ELSE "{\n" \o EncodeFields(value.v, keys, depth + 1) \o "\n"
                         \o Indentation(depth) \o "}"
      [] OTHER -> "null"

\* json.MarshalIndent(m, "", "  ") of a map[string]interface{} that was
\* decoded from JSON: it has no error
MarshalIndent(m) == Encode(JObj(m), 0)

\* FormatOutput whose default case returns the text
FormatOutputTextByDefault(response, format) ==
    CASE format = "json" -> MarshalIndent(response.Raw)
      [] format = "text" -> response.Content
      [] OTHER -> response.Content

FormatOutput(response, format) ==
    CASE format = "json" -> MarshalIndent(response.Raw)
      [] format = "text" -> response.Content
      [] OTHER -> MarshalIndent(response.Raw)

(***************************************************************************)
(* The command line run.                                                   *)
(***************************************************************************)
\* the most calls of a session that are recorded in cliCalls
MaxCalls == 3

\* the most entries that are recorded in console
MaxConsole == 12

\* the most chunks written to standard input
MaxChunks == 3

\* what is written to standard input at a time: lines, and an unfinished line
Chunks == {"thought 1\n", "thought 2\n", "exit\n", "exit"}

\* the command lines of the runs: every combination of the flags without
\* -interactive, and the interactive sessions
FlagSets ==
    [version : BOOLEAN, help : BOOLEAN, input : {"", "in.txt", "missing.txt"},
     args : {<<>>, <<"Launch it", "again">>}, interactive : {FALSE},
     output : {"", "out.txt", "dir"}, format : {"text", "json", "yaml"},
     verbose : BOOLEAN, timeout : {DefaultTimeout},
     model : {DefaultFlags.model}, maxTokens : {DefaultFlags.maxTokens}]
    \cup
    [version : {FALSE}, help : {FALSE}, input : {"", "missing.txt"},
     args : {<<>>, <<"Launch it", "again">>}, interactive : {TRUE},
     output : {""}, format : {"text", "json"}, verbose : {FALSE}, timeout : {DefaultTimeout},
     model : {DefaultFlags.model}, maxTokens : {DefaultFlags.maxTokens}]

\* the files of a command line run
CLIFiles ==
    [p \in Paths |->
        CASE p = "in.txt" -> RegularFile("This is a thought from a file")
          [] p = "out.txt" -> RegularFile("an earlier analysis")
          [] p = "dir" -> Directory
          [] OTHER -> NoFile]

defaultThought ==
    "I believe we should launch the new feature next week because our testing shows it improves user engagement by 23% and reduces load times by 15%, which addresses our Q2 goals. The only concern is that we haven't completed security testing, but I think we can do that in parallel during a limited rollout."

\* config, of the flags the model follows
ConfigOf(f) ==
    [APIKey |-> "", Model |-> f.model, Timeout |-> f.timeout,
     MaxTokens |-> f.maxTokens, OutputFormat |-> f.format, Verbose |-> f.verbose,
     Interactive |-> f.interactive, ThoughtPrompt |-> ""]

\* the thinkService of a command line run is any domain.ThinkService: it
\* returns a response made for the thought, or an error
MockOutcomes == {"response", "error"}

AnalyzeThoughtFunc(th, outcome) ==
    IF outcome = "response"
    THEN Returns(Some(ThinkResponse([content |-> JArr(<<TextBlock("Response for: " \o th)>>)],
                                    "Response for: " \o th)), Nil)
    ELSE Returns(Nil, Some(NewError("API error")))

\* what c.thinkService.AnalyzeThought returns: the ThinkService of main what
\* its invocation has returned, any other service what its function returns
thinkService(th, outcome) ==
    IF outcome = "ThinkService" THEN ret[1] ELSE AnalyzeThoughtFunc(th, outcome)

\* one call of thinkService.AnalyzeThought
Call(c, th, cfg) == [ctx |-> c, thought |-> th, config |-> cfg]

\* a FileStorage call and what it returned
StorageOp(op, filePath, data, err) ==
    [op |-> op, filePath |-> filePath, data |-> data, err |-> err]

\* how much of the data the device takes
DiskLevels == {"none", "half", "all"}

AcceptedAt(data, level) ==
    CASE level = "none" -> 0
      [] level = "half" -> Len(data) \div 2
      [] OTHER -> Len(data)

\* log with the entries appended, as far as the log has room
Recorded(log, entries, max) ==
    LET all == log \o entries
    IN  IF Len(all) <= max THEN all ELSE SubSeq(all, 1, max)

\* printVersion
VersionLines ==
    <<"Claude Think Tool v0.1.0\n",
      "A tool for analyzing and verifying thinking processes with Claude\n",
      "https://github.com/yourusername/claude-think-tool\n">>

\* printHelp: what it prints to standard output
HelpLines ==
    VersionLines \o
    <<"\nUsage:\n", "  claude-think-tool [options] [thought]\n", "\nOptions:\n",
      "\nExamples:\n",
      "  claude-think-tool \"I believe we should launch the feature next week\"\n",
      "  claude-think-tool -input thoughts.txt -output analysis.json -format json\n",
      "  claude-think-tool -interactive\n",
      "\nDocumentation:\n",
      "  For full documentation, visit: https://github.com/yourusername/claude-think-tool\n">>

Banner ==
    <<"Claude Think Tool Interactive Mode\n", "Type 'exit' or 'quit' to exit\n",
      "Enter a thought to analyze:\n">>

\* the run's state when runWithExit returns, exits, or enters the loop
CLIState(position, printed, message, calls, fs, log) ==
    [cliPc |-> position, console |-> printed, fatal |-> message, cliCalls |-> calls,
     files |-> fs, ops |-> log]

\* runWithExit choosing the thought with the positional argument first
runWithExitArgumentFirst(f, fs, outcome, level) ==
    IF f.version THEN CLIState("Exited", VersionLines, Nil, <<>>, fs, <<>>)
    ELSE IF f.help THEN CLIState("Exited", HelpLines, Nil, <<>>, fs, <<>>)
    ELSE
    LET cfg == ConfigOf(f)
        fromFile == f.input # "" /\ Len(f.args) = 0
        read == IF fromFile THEN ReadFromFile(fs, f.input) ELSE [data |-> "", err |-> Nil]
        readOps == IF fromFile
                   THEN <<StorageOp("ReadFromFile", f.input, read.data, read.err)>>
                   ELSE <<>>
        th == IF fromFile THEN read.data
              ELSE IF Len(f.args) > 0 THEN f.args[1]
              ELSE IF ~f.interactive THEN defaultThought
              ELSE ""
        c == WithTimeout("cli", cfg.Timeout)
    IN  IF read.err # Nil
        THEN CLIState("Fatal", <<>>,
                      Some("Error reading input file: " \o read.err[1].msg), <<>>, fs, readOps)
        ELSE IF f.interactive THEN CLIState("Reading", Banner, Nil, <<>>, fs, readOps)
        ELSE
        LET r == thinkService(th, outcome)
            calls == <<Call(c, th, cfg)>>
        IN  IF r.err # Nil
            THEN CLIState("Fatal", <<>>, Some("Think tool call error: " \o r.err[1].msg),
                          calls, fs, readOps)
            ELSE
            LET output == FormatOutput(r.resp[1], cfg.OutputFormat)
                w == WriteToFile(fs, f.output, output, AcceptedAt(output, level))
                writeOps == <<StorageOp("WriteToFile", f.output, output, w.err)>>
            IN  IF f.output = ""
                THEN CLIState("Exited", <<output \o "\n">>, Nil, calls, fs, readOps)
                ELSE IF w.err # Nil
                THEN CLIState("Fatal", <<>>,
                              Some("Error writing output file: " \o w.err[1].msg),
                              calls, w.files, readOps \o writeOps)
                ELSE CLIState("Exited", <<"Analysis written to " \o f.output \o "\n">>, Nil,
                              calls, w.files, readOps \o writeOps)

\* runWithExit printing the output also when it has written it to the -output file
runWithExitPrintsToo(f, fs, outcome, level) ==
    IF f.version THEN CLIState("Exited", VersionLines, Nil, <<>>, fs, <<>>)
    ELSE IF f.help THEN CLIState("Exited", HelpLines, Nil, <<>>, fs, <<>>)
    ELSE
    LET cfg == ConfigOf(f)
        read == IF f.input # "" THEN ReadFromFile(fs, f.input)
                ELSE [data |-> "", err |-> Nil]
        readOps == IF f.input # ""
                   THEN <<StorageOp("ReadFromFile", f.input, read.data, read.err)>>
                   ELSE <<>>
        th == IF f.input # "" THEN read.data
              ELSE IF Len(f.args) > 0 THEN f.args[1]
              ELSE IF ~f.interactive THEN defaultThought
              ELSE ""
        c == WithTimeout("cli", cfg.Timeout)
    IN  IF read.err # Nil
        THEN CLIState("Fatal", <<>>,
                      Some("Error reading input file: " \o read.err[1].msg), <<>>, fs, readOps)
        ELSE IF f.interactive THEN CLIState("Reading", Banner, Nil, <<>>, fs, readOps)
        ELSE
        LET r == thinkService(th, outcome)
            calls == <<Call(c, th, cfg)>>
        IN  IF r.err # Nil
            THEN CLIState("Fatal", <<>>, Some("Think tool call error: " \o r.err[1].msg),
                          calls, fs, readOps)
            ELSE
            LET output == FormatOutput(r.resp[1], cfg.OutputFormat)
                w == WriteToFile(fs, f.output, output, AcceptedAt(output, level))
                writeOps == <<StorageOp("WriteToFile", f.output, output, w.err)>>
            IN  IF f.output = ""
                THEN CLIState("Exited", <<output \o "\n">>, Nil, calls, fs, readOps)
                ELSE IF w.err # Nil
                THEN CLIState("Fatal", <<>>,
                              Some("Error writing output file: " \o w.err[1].msg),
                              calls, w.files, readOps \o writeOps)
                ELSE CLIState("Exited",
                              <<output \o "\n", "Analysis written to " \o f.output \o "\n">>,
                              Nil, calls, w.files, readOps \o writeOps)

\* runWithExit, from the parsed flags to its return, to the exit of
\* log.Fatalf, or to the entry of the interactive loop.  outcome is what
\* thinkService.AnalyzeThought returns when it is called, level how much the
\* device takes when the output file is written.
runWithExit(f, fs, outcome, level) ==
    IF f.version THEN CLIState("Exited", VersionLines, Nil, <<>>, fs, <<>>)
    ELSE IF f.help THEN CLIState("Exited", HelpLines, Nil, <<>>, fs, <<>>)
    ELSE
    LET cfg == ConfigOf(f)
        read == IF f.input # "" THEN ReadFromFile(fs, f.input)
                ELSE [data |-> "", err |-> Nil]
        readOps == IF f.input # ""
                   THEN <<StorageOp("ReadFromFile", f.input, read.data, read.err)>>
                   ELSE <<>>
        th == IF f.input # "" THEN read.data
              ELSE IF Len(f.args) > 0 THEN f.args[1]
              ELSE IF ~f.interactive THEN defaultThought
              ELSE ""
        c == WithTimeout("cli", cfg.Timeout)
    IN  IF read.err # Nil
        THEN CLIState("Fatal", <<>>,
                      Some("Error reading input file: " \o read.err[1].msg), <<>>, fs, readOps)
        ELSE IF f.interactive THEN CLIState("Reading", Banner, Nil, <<>>, fs, readOps)
        ELSE
        LET r == thinkService(th, outcome)
            calls == <<Call(c, th, cfg)>>
        IN  IF r.err # Nil
            THEN CLIState("Fatal", <<>>, Some("Think tool call error: " \o r.err[1].msg),
                          calls, fs, readOps)
            ELSE
            LET output == FormatOutput(r.resp[1], cfg.OutputFormat)
                w == WriteToFile(fs, f.output, output, AcceptedAt(output, level))
                writeOps == <<StorageOp("WriteToFile", f.output, output, w.err)>>
            IN  IF f.output = ""
                THEN CLIState("Exited", <<output \o "\n">>, Nil, calls, fs, readOps)
                ELSE IF w.err # Nil
                THEN CLIState("Fatal", <<>>,
                              Some("Error writing output file: " \o w.err[1].msg),
                              calls, w.files, readOps \o writeOps)
                ELSE CLIState("Exited", <<"Analysis written to " \o f.output \o "\n">>, Nil,
                              calls, w.files, readOps \o writeOps)

\* CLI.Run
Run ==
    /\ cliPc = "Start"
    /\ \E outcome \in MockOutcomes, level \in DiskLevels :
          LET after == runWithExit(flags, files, outcome, level)
          IN  /\ cliPc' = after.cliPc
              /\ console' = Recorded(console, after.console, MaxConsole)
              /\ fatal' = after.fatal
              /\ cliCalls' = Recorded(cliCalls, after.cliCalls, MaxCalls)
              /\ files' = after.files
              /\ ops' = ops \o after.ops
    /\ UNCHANGED <<flags, stdin, typed, input, exchange, result, serviceVars>>

\* the writer of standard input writes a chunk
StdinWrite(chunk) ==
    /\ flags.interactive
    /\ ~stdin.closed
    /\ Len(typed) < MaxChunks
    /\ stdin' = [stdin EXCEPT !.text = @ \o chunk]
    /\ typed' = Append(typed, chunk)
    /\ UNCHANGED <<flags, cliPc, input, cliCalls, console, fatal, files, ops, exchange,
                   result, serviceVars>>

\* the writer of standard input closes it
StdinClose ==
    /\ flags.interactive
    /\ ~stdin.closed
    /\ stdin' = [stdin EXCEPT !.closed = TRUE]
    /\ UNCHANGED <<flags, typed, cliPc, input, cliCalls, console, fatal, files, ops,
                   exchange, result, serviceVars>>

\* ReadInput making a context of its own, with a deadline of its own, for the
\* call of each iteration
ReadInputRenewsDeadline ==
    /\ cliPc = "Reading"
    /\ stdin.closed \/ stdin.broken
    /\ IF stdin.broken
       THEN /\ cliPc' = "Fatal"
            /\ fatal' = Some("Error reading input: read /dev/stdin: bad file descriptor")
            /\ console' = Recorded(console, <<"> ">>, MaxConsole)
            /\ UNCHANGED <<stdin, input, cliCalls>>
       ELSE /\ input' = stdin.text
            /\ stdin' = [stdin EXCEPT !.text = ""]
            /\ fatal' = fatal
            /\ IF stdin.text = "exit" \/ stdin.text = "quit"
               THEN /\ cliPc' = "Exited"
                    /\ console' = Recorded(console, <<"> ", "Goodbye!\n">>, MaxConsole)
                    /\ UNCHANGED cliCalls
               ELSE /\ cliPc' = "Analyzing"
                    /\ console' = Recorded(console, <<"> ">>, MaxConsole)
                    /\ cliCalls' =
                          Recorded(cliCalls,
                                   <<Call(WithTimeout(<<"cli", Len(cliCalls) + 1>>,
                                                      ConfigOf(flags).Timeout),
                                          stdin.text, ConfigOf(flags))>>,
                                   MaxCalls)
    /\ UNCHANGED <<flags, typed, files, ops, exchange, result, serviceVars>>

\* an iteration of the loop of runInteractiveMode up to its call of
\* AnalyzeThought: the prompt is printed, io.Copy reads standard input to
\* its end (it returns when the writer has closed it, or with an error), and
\* the whole of what was read is the input.
ReadInput ==
    /\ cliPc = "Reading"
    /\ stdin.closed \/ stdin.broken
    /\ IF stdin.broken
       THEN /\ cliPc' = "Fatal"
            /\ fatal' = Some("Error reading input: read /dev/stdin: bad file descriptor")
            /\ console' = Recorded(console, <<"> ">>, MaxConsole)
            /\ UNCHANGED <<stdin, input, cliCalls>>
       ELSE /\ input' = stdin.text
            /\ stdin' = [stdin EXCEPT !.text = ""]
            /\ fatal' = fatal
            /\ IF stdin.text = "exit" \/ stdin.text = "quit"
               THEN /\ cliPc' = "Exited"
                    /\ console' = Recorded(console, <<"> ", "Goodbye!\n">>, MaxConsole)
                    /\ UNCHANGED cliCalls
               ELSE /\ cliPc' = "Analyzing"
                    /\ console' = Recorded(console, <<"> ">>, MaxConsole)
                    /\ cliCalls' =
                          Recorded(cliCalls,
                                   <<Call(WithTimeout("cli", ConfigOf(flags).Timeout),
                                          stdin.text, ConfigOf(flags))>>,
                                   MaxCalls)
    /\ UNCHANGED <<flags, typed, files, ops, exchange, result, serviceVars>>

\* AnalysisReturns ending the session on an error, as the run without
\* -interactive ends
AnalysisReturnsFatalOnError ==
    /\ cliPc = "Analyzing"
    /\ \E outcome \in MockOutcomes :
          LET r == AnalyzeThoughtFunc(input, outcome)
          IN  IF r.err # Nil
              THEN /\ cliPc' = "Fatal"
                   /\ fatal' = Some("Think tool call error: " \o r.err[1].msg)
                   /\ UNCHANGED console
              ELSE /\ cliPc' = "Reading"
                   /\ console' =
                         Recorded(console,
                                  <<FormatOutput(r.resp[1], ConfigOf(flags).OutputFormat) \o "\n">>,
                                  MaxConsole)
                   /\ UNCHANGED fatal
    /\ UNCHANGED <<flags, stdin, typed, input, cliCalls, files, ops, exchange,
                   result, serviceVars>>

\* the rest of the iteration: AnalyzeThought returns, its error or the
\* formatted response is printed, and the loop goes on
AnalysisReturns ==
    /\ cliPc = "Analyzing"
    /\ \E outcome \in MockOutcomes :
          LET r == AnalyzeThoughtFunc(input, outcome)
          IN  console' =
                  Recorded(console,
                           IF r.err # Nil THEN <<"Error: " \o r.err[1].msg \o "\n">>
                           ELSE <<FormatOutput(r.resp[1], ConfigOf(flags).OutputFormat) \o "\n">>,
                           MaxConsole)
    /\ cliPc' = "Reading"
    /\ UNCHANGED <<flags, stdin, typed, input, cliCalls, fatal, files, ops, exchange,
                   result, serviceVars>>

\* the service's variables in the runs that do not enter the service
ServiceIdle ==
    /\ pc = [i \in Invocations |-> "Unused"]
    /\ thought = [i \in Invocations |-> "Launch it"]
    /\ config = [i \in Invocations |->
                    [APIKey |-> "", Model |-> "test-model", MaxTokens |-> 1024,
                     ThoughtPrompt |-> ""]]
    /\ env = ""
    /\ toolTags = TRUE
    /\ userPrompt = [i \in Invocations |-> ""]
    /\ content = [i \in Invocations |-> <<>>]
    /\ sent = [i \in Invocations |-> <<>>]
    /\ received = [i \in Invocations |-> <<>>]
    /\ ret = [i \in Invocations |-> NotReturned]
    /\ stdout = <<>>
    /\ ctx = [i \in Invocations |-> WithTimeout(i, DefaultTimeout)]
    /\ passed = [i \in Invocations |-> <<>>]
    /\ expired = {}

\* a command line run: any flags, the files of the run, standard input
\* still to be written
CLIInit ==
    /\ ServiceIdle
    /\ flags \in FlagSets
    /\ stdin \in {[text |-> "", closed |-> FALSE, broken |-> b] :
                     b \in IF flags.interactive THEN BOOLEAN ELSE {FALSE}}
    /\ typed = <<>>
    /\ cliPc = "Start"
    /\ input = ""
    /\ cliCalls = <<>>
    /\ console = <<>>
    /\ fatal = Nil
    /\ files = CLIFiles
    /\ ops = <<>>
    /\ ClientIdle

CLINext ==
    \/ Run
    \/ \E chunk \in Chunks : StdinWrite(chunk)
    \/ StdinClose
    \/ ReadInput
    \/ AnalysisReturns

CLISpec == CLIInit /\ [][CLINext]_vars

\* An interactive session with the default flags, the loop and the writer
\* of standard input taking their steps: the run does not stop while a step
\* of it is possible.
SessionInit ==
    /\ CLIInit
    /\ flags = [DefaultFlags EXCEPT !.interactive = TRUE]

SessionSpec ==
    /\ SessionInit
    /\ [][CLINext]_vars
    /\ WF_vars(Run)
    /\ WF_vars(ReadInput)
    /\ WF_vars(AnalysisReturns)

\* The deadline of the session's context elapses: the context is made by
\* runWithExit before it enters the loop.
SessionDeadlineElapses ==
    /\ flags.interactive
    /\ cliPc \in {"Reading", "Analyzing"}
    /\ WithTimeout("cli", ConfigOf(flags).Timeout) \notin expired
    /\ expired' = expired \cup {WithTimeout("cli", ConfigOf(flags).Timeout)}
    /\ UNCHANGED <<pc, thought, config, env, toolTags, hostVars, userPrompt, content, sent,
                   received, ret, stdout, ctx, passed>>

\* the -timeout values of the timed sessions, in seconds
Timeouts == {DefaultTimeout, 60}

\* An interactive session with a -timeout, and the time that passes.
TimedSessionInit ==
    /\ ServiceIdle
    /\ \E t \in Timeouts :
          flags = [DefaultFlags EXCEPT !.interactive = TRUE, !.timeout = t]
    /\ stdin \in {[text |-> "", closed |-> FALSE, broken |-> b] : b \in BOOLEAN}
    /\ typed = <<>>
    /\ cliPc = "Start"
    /\ input = ""
    /\ cliCalls = <<>>
    /\ console = <<>>
    /\ fatal = Nil
    /\ files = CLIFiles
    /\ ops = <<>>
    /\ ClientIdle

TimedSessionNext ==
    \/ Run
    \/ \E chunk \in Chunks : StdinWrite(chunk)
    \/ StdinClose
    \/ ReadInput
    \/ AnalysisReturns
    \/ SessionDeadlineElapses

TimedSessionSpec == TimedSessionInit /\ [][TimedSessionNext]_vars

(***************************************************************************)
(* The program of main: the command line run with the ThinkService as its  *)
(* thinkService, against a client that returns the replies of the          *)
(* scenarios.  The service's invocation 1 is the call the run makes.       *)
(***************************************************************************)
\* the command lines of the program's runs: without -interactive
ProgramFlagSets ==
    [version : {FALSE}, help : {FALSE}, input : {"", "in.txt", "missing.txt"},
     args : {<<>>, <<"Launch it", "again">>}, interactive : {FALSE},
     output : {"", "out.txt"}, format : {"text", "json"}, verbose : BOOLEAN,
     timeout : {DefaultTimeout}, model : {DefaultFlags.model, "test-model"},
     maxTokens : {DefaultFlags.maxTokens, 2048}]

ProgramInit ==
    /\ pc = [i \in Invocations |-> "Unused"]
    /\ thought = [i \in Invocations |-> "Launch it"]
    /\ config = [i \in Invocations |->
                    [APIKey |-> "", Model |-> "test-model", MaxTokens |-> 1024,
                     ThoughtPrompt |-> ""]]
    /\ env \in EnvKeys
    /\ toolTags \in BOOLEAN
    /\ userPrompt = [i \in Invocations |-> ""]
    /\ content = [i \in Invocations |-> <<>>]
    /\ sent = [i \in Invocations |-> <<>>]
    /\ received = [i \in Invocations |-> <<>>]
    /\ ret = [i \in Invocations |-> NotReturned]
    /\ stdout = <<>>
    /\ ctx = [i \in Invocations |-> WithTimeout(i, DefaultTimeout)]
    /\ passed = [i \in Invocations |-> <<>>]
    /\ expired = {}
    /\ flags \in ProgramFlagSets
    /\ stdin = [text |-> "", closed |-> FALSE, broken |-> FALSE]
    /\ typed = <<>>
    /\ cliPc = "Start"
    /\ input = ""
    /\ cliCalls = <<>>
    /\ console = <<>>
    /\ fatal = Nil
    /\ files = CLIFiles
    /\ ops = <<>>
    /\ ClientIdle

\* the call of AnalyzeThought that runWithExit makes with these flags and
\* files: none when the run ends before it
CallOfRun == runWithExit(flags, files, "error", "all").cliCalls

\* runWithExit up to its call of c.thinkService.AnalyzeThought: the service
\* is entered with the context, the thought and the config of the run
CallsAnalyzeThought ==
    /\ cliPc = "Start"
    /\ CallOfRun # <<>>
    /\ cliPc' = "Calling"
    /\ pc' = [pc EXCEPT ![1] = "Start"]
    /\ ctx' = [ctx EXCEPT ![1] = CallOfRun[1].ctx]
    /\ thought' = [thought EXCEPT ![1] = CallOfRun[1].thought]
    /\ config' = [config EXCEPT ![1] = CallOfRun[1].config]
    /\ UNCHANGED <<env, toolTags, userPrompt, content, sent, received, ret, stdout, passed,
                   expired, flags, stdin, typed, input>>
    /\ UNCHANGED <<cliCalls, console, fatal, files, ops, exchange, result>>

\* runWithExit with what the service has returned: the whole run when it
\* makes no call, or the run once its call has returned
RunOfProgram ==
    /\ \/ cliPc = "Start" /\ CallOfRun = <<>>
       \/ cliPc = "Calling" /\ pc[1] = "Returned"
    /\ \E level \in DiskLevels :
          LET after == runWithExit(flags, files, "ThinkService", level)
          IN  /\ cliPc' = after.cliPc
              /\ console' = Recorded(console, after.console, MaxConsole)
              /\ fatal' = after.fatal
              /\ cliCalls' = Recorded(cliCalls, after.cliCalls, MaxCalls)
              /\ files' = after.files
              /\ ops' = ops \o after.ops
    /\ UNCHANGED <<flags, stdin, typed, input, exchange, result, serviceVars>>

ProgramNext ==
    \/ CallsAnalyzeThought
    \/ RunOfProgram
    \/ Start(1)
    \/ ScenarioInitialReturns(1)
    \/ BuildFollowUp(1)
    \/ ScenarioFollowUpReturns(1)
    \/ DeadlineElapses(1)

ProgramSpec == ProgramInit /\ [][ProgramNext]_vars

(***************************************************************************)
(* ClaudeAPIClient.SendRequest over one HTTP exchange.                     *)
(***************************************************************************)
Statuses == {200, 201, 400, 401, 500}

Bodies ==
    {"", "{\"id\":\"msg_123\",\"content\":[]}",
     "{\"error\":{\"type\":\"invalid_request_error\",\"message\":\"Model not found\"}}"}

\* what can happen to a request: whether json.Marshal takes the request
\* data, the error of c.Client.Do if it has one, and otherwise the status
\* and the body of the response and whether reading the body fails
Exchanges ==
    [serializable : BOOLEAN,
     failure : {Nil, Some(NewError("Post \"https://api.anthropic.com/v1/messages\": EOF"))},
     status : Statuses, body : Bodies, readFails : BOOLEAN]

UnexpectedEOF == NewError("unexpected EOF")

\* SendRequest taking every status from 200 to 299 for a success
SendRequestOverAny2xx(x) ==
    IF ~x.serializable
    THEN Failure(ErrorfW("failed to serialize request",
                         NewError("json: unsupported type: chan int")))
    ELSE IF x.failure # Nil THEN Failure(ErrorfW("HTTP request failed", x.failure[1]))
    ELSE IF x.status < 200 \/ x.status > 299
    THEN IF x.readFails
         THEN Failure(ErrorfW("received non-200 response: " \o ToString(x.status)
                                  \o ", failed to read body", UnexpectedEOF))
         ELSE Failure(NewError("received non-200 response: " \o ToString(x.status)
                                   \o ", body: " \o x.body))
    ELSE IF x.readFails THEN Failure(ErrorfW("failed to read response body", UnexpectedEOF))
    ELSE Reply(x.body)

\* SendRequest, by what happens to the request
SendRequestOver(x) ==
    IF ~x.serializable
    THEN Failure(ErrorfW("failed to serialize request",
                         NewError("json: unsupported type: chan int")))
    ELSE IF x.failure # Nil THEN Failure(ErrorfW("HTTP request failed", x.failure[1]))
    ELSE IF x.status # 200
    THEN IF x.readFails
         THEN Failure(ErrorfW("received non-200 response: " \o ToString(x.status)
                                  \o ", failed to read body", UnexpectedEOF))
         ELSE Failure(NewError("received non-200 response: " \o ToString(x.status)
                                   \o ", body: " \o x.body))
    ELSE IF x.readFails THEN Failure(ErrorfW("failed to read response body", UnexpectedEOF))
    ELSE Reply(x.body)

\* one call of ClaudeAPIClient.SendRequest
ClientSendRequest ==
    /\ result = Nil
    /\ result' = Some(SendRequestOver(exchange))
    /\ UNCHANGED <<flags, stdin, typed, cliPc, input, cliCalls, console, fatal, files, ops,
                   exchange, serviceVars>>

ClientInit ==
    /\ ServiceIdle
    /\ CLIIdle
    /\ StorageIdle
    /\ exchange \in Exchanges
    /\ result = Nil

ClientSpec == ClientInit /\ [][ClientSendRequest]_vars

(***************************************************************************)
(* FileStorage called on its own: any writes and reads, in any order.      *)
(***************************************************************************)
\* the most FileStorage calls of a run
MaxOps == 3

\* a file that is there, a directory, and a path with nothing at it
StoragePaths == {"out.txt", "dir", "missing.txt"}

Contents == {"ab", "test content"}

StorageWrite(filePath, data, level) ==
    /\ Len(ops) < MaxOps
    /\ LET w == WriteToFile(files, filePath, data, AcceptedAt(data, level))
       IN  /\ files' = w.files
           /\ ops' = Append(ops, StorageOp("WriteToFile", filePath, data, w.err))
    /\ UNCHANGED <<flags, stdin, typed, cliPc, input, cliCalls, console, fatal, exchange,
                   result, serviceVars>>

StorageRead(filePath) ==
    /\ Len(ops) < MaxOps
    /\ LET r == ReadFromFile(files, filePath)
       IN  ops' = Append(ops, StorageOp("ReadFromFile", filePath, r.data, r.err))
    /\ UNCHANGED <<flags, stdin, typed, cliPc, input, cliCalls, console, fatal, files,
                   exchange, result, serviceVars>>

StorageInit ==
    /\ ServiceIdle
    /\ CLIIdle
    /\ ClientIdle
    /\ files = CLIFiles
    /\ ops = <<>>

StorageNext ==
    \/ \E filePath \in StoragePaths, data \in Contents, level \in DiskLevels :
          StorageWrite(filePath, data, level)
    \/ \E filePath \in StoragePaths : StorageRead(filePath)

StorageSpec == StorageInit /\ [][StorageNext]_vars

(***************************************************************************)
(* Vocabulary of the properties, stated on the recorded calls and replies  *)
(* and not through the operators the actions are built from.               *)
(***************************************************************************)
Returned(i) == pc[i] = "Returned"

\* the run ended with a result / with an error
Complete(i) == Returned(i) /\ ret[i].resp # Nil /\ ret[i].err = Nil

Failed(i) == Returned(i) /\ ret[i].resp = Nil /\ ret[i].err # Nil

\* the k-th SendRequest call has returned
Replied(i, k) == Len(received[i]) >= k

\* the k-th reply carries bytes that decode (a JSON object, or null, which
\* decodes to a map without keys)
Decodes(o) == o.err = Nil /\ o.bytes[1].t \in {"object", "null"}

FieldsOf(o) == IF o.bytes[1].t = "object" THEN o.bytes[1].v ELSE EmptyMap

StopReasonIs(o, reason) ==
    /\ Decodes(o)
    /\ "stop_reason" \in DOMAIN FieldsOf(o)
    /\ FieldsOf(o)["stop_reason"] = JStr(reason)

HasContentSeq(o) ==
    /\ Decodes(o)
    /\ "content" \in DOMAIN FieldsOf(o)
    /\ FieldsOf(o)["content"].t = "array"

ContentOf(o) == FieldsOf(o)["content"].v

IsBlockOfType(item, type) ==
    /\ item.t = "object"
    /\ "type" \in DOMAIN item.v
    /\ item.v["type"].t = "string"
    /\ item.v["type"].v = type

\* a text block that carries a text
IsTextBlock(item) ==
    /\ IsBlockOfType(item, "text")
    /\ "text" \in DOMAIN item.v
    /\ item.v["text"].t = "string"

IsToolUse(item) == IsBlockOfType(item, "tool_use")

\* each text of the sequence followed by a newline, in order
RECURSIVE Lines(_)
Lines(blocks) ==
    IF blocks = <<>> THEN ""
    ELSE Lines(SubSeq(blocks, 1, Len(blocks) - 1))
             \o blocks[Len(blocks)].v["text"].v \o "\n"

TextOf(items) == Lines(SelectSeq(items, IsTextBlock))

ToolUsesOf(items) == SelectSeq(items, IsToolUse)

\* the string field f of an object item, "" when it has none
FieldText(item, f) ==
    IF f \in DOMAIN item.v /\ item.v[f].t = "string" THEN item.v[f].v ELSE ""

\* the block has an id and a name, both non-empty strings
Usable(item) == FieldText(item, "id") # "" /\ FieldText(item, "name") # ""

MessagesOf(request) == request.v["messages"].v

LastMessageOf(request) == MessagesOf(request)[Len(MessagesOf(request))]

\* substring test
Contains(s, sub) ==
    \E k \in 1..(Len(s) - Len(sub) + 1) : SubSeq(s, k, k + Len(sub) - 1) = sub

(***************************************************************************)
(* C1.  If the first response decodes and its stop_reason is not           *)
(* "tool_use", SendRequest is called exactly once and the run returns a    *)
(* result whose text is the first response's text blocks, each followed    *)
(* by a newline.  As stated (C1_AsClaimed) this fails for a decoded        *)
(* response whose content is missing or is not a sequence: that run        *)
(* returns an error.  It holds when the content is a sequence              *)
(* (C1_SingleTurn).                                                        *)
(***************************************************************************)
C1_Conclusion(i) ==
    /\ Complete(i)
    /\ Len(sent[i]) = 1
    /\ Len(received[i]) = 1
    /\ ret[i].resp[1].Content = TextOf(ContentOf(received[i][1]))

\* C1 as claimed: a decoded first response with a stop_reason other than
\* "tool_use" gives one call and a result with the text of its text blocks.
C1_AsClaimed ==
    \A i \in Invocations :
        (/\ Replied(i, 1)
         /\ Decodes(received[i][1])
         /\ ~StopReasonIs(received[i][1], "tool_use"))
        => C1_Conclusion(i)

\* C1 as amended: the same, for a first response whose content is a sequence.
C1_SingleTurn ==
    \A i \in Invocations :
        (/\ Replied(i, 1)
         /\ Decodes(received[i][1])
         /\ ~StopReasonIs(received[i][1], "tool_use")
         /\ HasContentSeq(received[i][1]))
        => C1_Conclusion(i)

\* C1 reached: "hello" answered with end_turn gives the result "hello\n" after one call.
C1_Witness ==
    \E i \in Invocations :
        /\ Replied(i, 1)
        /\ StopReasonIs(received[i][1], "end_turn")
        /\ HasContentSeq(received[i][1])
        /\ ContentOf(received[i][1]) = <<TextBlock("hello")>>
        /\ thought[i] = "Launch it"
        /\ Complete(i)
        /\ ret[i].resp[1].Content = "hello\n"
        /\ Len(sent[i]) = 1

(***************************************************************************)
(* C2.  If the first response has stop_reason "tool_use" and its content   *)
(* holds at least one tool_use block, SendRequest is called exactly twice  *)
(* and the last message of the second request is a tool_result block keyed *)
(* by the id of the first tool_use block.  As stated (C2_AsClaimed) this   *)
(* fails when the first tool_use block has no id or no name (missing or    *)
(* empty): the run ends after one call.  It holds when the first tool_use  *)
(* block has both (C2_TwoTurns).                                           *)
(***************************************************************************)
C2_Asks(i) ==
    /\ Replied(i, 1)
    /\ StopReasonIs(received[i][1], "tool_use")
    /\ HasContentSeq(received[i][1])
    /\ ToolUsesOf(ContentOf(received[i][1])) # <<>>

C2_Conclusion(i) ==
    /\ Len(sent[i]) = 2
    /\ LET last == LastMessageOf(sent[i][2])
           first == ToolUsesOf(ContentOf(received[i][1]))[1]
       IN  /\ last.v["content"].t = "array"
           /\ Len(last.v["content"].v) = 1
           /\ IsBlockOfType(last.v["content"].v[1], "tool_result")
           /\ last.v["content"].v[1].v["tool_use_id"] = JStr(FieldText(first, "id"))

\* C2 as claimed: stop_reason "tool_use" and a tool_use block in the content
\* give two calls, the second ending with a tool_result keyed by the first
\* tool_use block's id.
C2_AsClaimed ==
    \A i \in Invocations : (Returned(i) /\ C2_Asks(i)) => C2_Conclusion(i)

\* C2 as amended: the same, when the first tool_use block has an id and a name.
C2_TwoTurns ==
    \A i \in Invocations :
        (/\ Returned(i)
         /\ C2_Asks(i)
         /\ Usable(ToolUsesOf(ContentOf(received[i][1]))[1]))
        => C2_Conclusion(i)

\* C2 reached: a two-turn run whose follow-up answers tu_1.
C2_Witness ==
    \E i \in Invocations :
        /\ Returned(i)
        /\ C2_Asks(i)
        /\ ContentOf(received[i][1]) = <<TextBlock("A"), ToolUseBlock("tu_1", "think")>>
        /\ Len(sent[i]) = 2
        /\ LastMessageOf(sent[i][2]).v["content"].v[1].v["tool_use_id"] = JStr("tu_1")
        /\ Complete(i)
        /\ ret[i].resp[1].Content = "done\n"

(***************************************************************************)
(* C3.  A follow-up request has exactly three messages, in this order: the *)
(* user message of the initial request, with the same composed prompt; an  *)
(* assistant message whose content is the content sequence of the first    *)
(* response, every block in its place; a user message whose content is one *)
(* tool_result block.                                                      *)
(***************************************************************************)
\* C3: the three messages of every follow-up request.
C3_FollowUpMessages ==
    \A i \in Invocations :
        Len(sent[i]) >= 2 =>
            LET m == MessagesOf(sent[i][2])
                reply == ContentOf(received[i][1])
            IN  /\ Len(m) = 3
                /\ Len(MessagesOf(sent[i][1])) = 1
                /\ m[1] = MessagesOf(sent[i][1])[1]
                /\ m[1].v["role"] = JStr("user")
                /\ m[1].v["content"].t = "string"
                /\ HasSuffix(m[1].v["content"].v, thought[i])
                /\ m[2].v["role"] = JStr("assistant")
                /\ m[2].v["content"].t = "array"
                /\ Len(m[2].v["content"].v) = Len(reply)
                /\ \A k \in 1..Len(reply) : m[2].v["content"].v[k] = reply[k]
                /\ m[3].v["role"] = JStr("user")
                /\ m[3].v["content"].t = "array"
                /\ Len(m[3].v["content"].v) = 1
                /\ IsBlockOfType(m[3].v["content"].v[1], "tool_result")

\* C3 reached: a follow-up that repeats [text A, tool_use, text B] after the prompt.
C3_Witness ==
    \E i \in Invocations :
        /\ Len(sent[i]) = 2
        /\ ContentOf(received[i][1])
              = <<TextBlock("A"), ToolUseBlock("tu_1", "think"), TextBlock("B")>>
        /\ MessagesOf(sent[i][2])[2].v["content"].v
              = <<TextBlock("A"), ToolUseBlock("tu_1", "think"), TextBlock("B")>>
        /\ MessagesOf(sent[i][2])[1].v["content"]
              = JStr("Critically evaluate this hypothesis: Launch it")

(***************************************************************************)
(* C4.  When the content of the first response holds several tool_use      *)
(* blocks, the id and name used are those of the first one in document     *)
(* order and the later ones are ignored: no request of the run carries     *)
(* more than one tool_result, the follow-up carries exactly one, keyed by  *)
(* the first block's id, and a first block that is not usable ends the run *)
(* without a follow-up whatever the later blocks are.                      *)
(***************************************************************************)
\* the tool_result blocks of a request, over all its messages
RECURSIVE ToolResultsIn(_)
ToolResultsIn(messages) ==
    IF messages = <<>> THEN <<>>
    ELSE LET c == Head(messages).v["content"]
         IN  (IF c.t = "array"
              THEN SelectSeq(c.v, LAMBDA b : IsBlockOfType(b, "tool_result"))
              ELSE <<>>) \o ToolResultsIn(Tail(messages))

C4_Several(i) ==
    /\ Replied(i, 1)
    /\ StopReasonIs(received[i][1], "tool_use")
    /\ HasContentSeq(received[i][1])
    /\ Len(ToolUsesOf(ContentOf(received[i][1]))) >= 2

\* C4: with several tool_use blocks the first one decides, the others are ignored.
C4_FirstToolUseWins ==
    \A i \in Invocations :
        (C4_Several(i) /\ pc[i] # "ToolUseDetected") =>
            LET first == ToolUsesOf(ContentOf(received[i][1]))[1]
            IN  /\ ToolResultsIn(MessagesOf(sent[i][1])) = <<>>
                /\ Len(sent[i]) <= 2
                /\ Usable(first) <=> Len(sent[i]) = 2
                /\ Len(sent[i]) = 2 =>
                      LET results == ToolResultsIn(MessagesOf(sent[i][2]))
                      IN  /\ Len(results) = 1
                          /\ results[1].v["tool_use_id"] = JStr(FieldText(first, "id"))

\* C4 reached: [tool_use tu_2, tool_use tu_1] is answered by one tool_result for tu_2.
C4_Witness ==
    \E i \in Invocations :
        /\ C4_Several(i)
        /\ ContentOf(received[i][1])
              = <<ToolUseBlock("tu_2", "other"), ToolUseBlock("tu_1", "think")>>
        /\ Len(sent[i]) = 2
        /\ ToolResultsIn(MessagesOf(sent[i][2]))
              = <<ToolResultBlock("tu_2", DefaultToolResult)>>

(***************************************************************************)
(* C5.  If the first response has stop_reason "tool_use" and its content   *)
(* (a sequence) holds no tool_use block, the run fails with the error      *)
(* "couldn't find valid tool use block" and no follow-up request is ever   *)
(* sent.                                                                   *)
(***************************************************************************)
C5_NoToolUse(i) ==
    /\ Replied(i, 1)
    /\ StopReasonIs(received[i][1], "tool_use")
    /\ HasContentSeq(received[i][1])
    /\ ToolUsesOf(ContentOf(received[i][1])) = <<>>

\* C5: stop_reason "tool_use" without a tool_use block fails and sends no follow-up.
C5_NoToolUseBlockFails ==
    \A i \in Invocations :
        C5_NoToolUse(i) =>
            /\ Len(sent[i]) = 1
            /\ Len(received[i]) = 1
            /\ pc[i] \in {"ToolUseDetected", "Returned"}
            /\ Returned(i) =>
                  /\ Failed(i)
                  /\ ret[i].err[1] = NewError("couldn't find valid tool use block")

\* C5 reached: [text A, stray] with stop_reason "tool_use" has failed after one call.
C5_Witness ==
    \E i \in Invocations :
        /\ C5_NoToolUse(i)
        /\ ContentOf(received[i][1]) = <<TextBlock("A"), JStr("stray")>>
        /\ Failed(i)
        /\ ret[i].err[1].msg = "couldn't find valid tool use block"
        /\ Len(sent[i]) = 1

(***************************************************************************)
(* C6.  If the first SendRequest call returns an error, the run fails with *)
(* an error whose message starts with "initial request failed" and which   *)
(* wraps that error, there is no result, and no second call is ever made.  *)
(***************************************************************************)
\* C6: an error of the first call ends the run with the wrapped, tagged error.
C6_InitialFailure ==
    \A i \in Invocations :
        (Replied(i, 1) /\ received[i][1].err # Nil) =>
            /\ Failed(i)
            /\ HasPrefix(ret[i].err[1].msg, "initial request failed: ")
            /\ HasSuffix(ret[i].err[1].msg, received[i][1].err[1].msg)
            /\ ret[i].err[1].wrapped = received[i][1].err
            /\ Len(sent[i]) = 1
            /\ Len(received[i]) = 1

\* C6 reached: "API error" on the first call.
C6_Witness ==
    \E i \in Invocations :
        /\ Replied(i, 1)
        /\ received[i][1].err = Some(NewError("API error"))
        /\ Failed(i)
        /\ ret[i].err[1].msg = "initial request failed: API error"
        /\ Len(sent[i]) = 1

(***************************************************************************)
(* C7.  If the first response asks for the tool and the second SendRequest *)
(* call returns an error, the run fails with an error whose message starts *)
(* with "follow-up request failed" (not with the tag of an initial         *)
(* failure) and which wraps that error, there is no result, and no third   *)
(* call is made.                                                           *)
(***************************************************************************)
\* C7: an error of the second call ends the run with the wrapped, tagged error.
C7_FollowUpFailure ==
    \A i \in Invocations :
        (Replied(i, 2) /\ received[i][2].err # Nil) =>
            /\ StopReasonIs(received[i][1], "tool_use")
            /\ Failed(i)
            /\ HasPrefix(ret[i].err[1].msg, "follow-up request failed: ")
            /\ ~HasPrefix(ret[i].err[1].msg, "initial request failed")
            /\ HasSuffix(ret[i].err[1].msg, received[i][2].err[1].msg)
            /\ ret[i].err[1].wrapped = received[i][2].err
            /\ Len(sent[i]) = 2
            /\ Len(received[i]) = 2

\* C7 reached: "API error" on the second call.
C7_Witness ==
    \E i \in Invocations :
        /\ Replied(i, 2)
        /\ StopReasonIs(received[i][1], "tool_use")
        /\ received[i][2].err = Some(NewError("API error"))
        /\ Failed(i)
        /\ ret[i].err[1].msg = "follow-up request failed: API error"
        /\ Len(sent[i]) = 2

(***************************************************************************)
(* C8.  In every run SendRequest is called at most twice: the initial      *)
(* request (the one with the tools) at most once and first, the follow-up  *)
(* at most once; the two requests differ; the run only moves forward       *)
(* through Start, AwaitingInitial, ToolUseDetected, AwaitingFollowUp,      *)
(* Returned and never comes back to a place it has left; every call is     *)
(* answered before the next is made; and once the run has returned (with   *)
(* an error or a result) no request is sent.                               *)
(***************************************************************************)
Rank(place) ==
    CASE place = "Unused" -> 0
      [] place = "Start" -> 1
      [] place = "AwaitingInitial" -> 2
      [] place = "ToolUseDetected" -> 3
      [] place = "AwaitingFollowUp" -> 4
      [] place = "Returned" -> 5

IsInitialRequest(request) == "tools" \in DOMAIN request.v

C8_CallsBounded(i) ==
    /\ Len(sent[i]) <= 2
    /\ Len(received[i]) <= Len(sent[i])
    /\ Len(sent[i]) <= Len(received[i]) + 1
    /\ Len(sent[i]) >= 1 => IsInitialRequest(sent[i][1])
    /\ Len(sent[i]) >= 2 =>
          /\ ~IsInitialRequest(sent[i][2])
          /\ sent[i][2] # sent[i][1]
          /\ received[i][1].err = Nil

C8_Forward(i) ==
    /\ Rank(pc'[i]) >= Rank(pc[i])
    /\ pc'[i] = pc[i] => (sent'[i] = sent[i] /\ received'[i] = received[i])
    /\ Len(sent'[i]) >= Len(sent[i])
    /\ Len(sent'[i]) > Len(sent[i]) =>
          (SubSeq(sent'[i], 1, Len(sent[i])) = sent[i] /\ Len(received[i]) = Len(sent[i]))
    /\ Returned(i) => (sent'[i] = sent[i] /\ ret'[i] = ret[i] /\ pc'[i] = pc[i])

\* C8: at most two calls, no repetition, no way back, nothing sent after the return.
C8_AtMostTwoCalls ==
    /\ [](\A i \in Invocations : C8_CallsBounded(i))
    /\ [][\A i \in Invocations : C8_Forward(i)]_vars

\* C8 reached: a run with two calls that failed on the second.
C8_Witness ==
    \E i \in Invocations :
        /\ Len(sent[i]) = 2
        /\ Len(received[i]) = 2
        /\ Failed(i)
        /\ received[i][2].err = Some(NewError("context deadline exceeded"))

(***************************************************************************)
(* C9.  Text extraction over a content sequence gives, in document order,  *)
(* the text of every block of type "text", each followed by one newline    *)
(* (a block of type "text" that carries no text has none to give); items   *)
(* of any other type, or of no type, give nothing.  So                     *)
(* [text A, tool_use, text B] gives "A\nB\n", and a sequence without a     *)
(* text block gives the empty string.  Checked on the text of every        *)
(* result, which is extracted from the content of its raw payload.         *)
(***************************************************************************)
C9_ExtractedText(raw, text) ==
    LET items == raw["content"].v
    IN  /\ text = TextOf(items)
        /\ items = <<TextBlock("A"), ToolUseBlock("tu_1", "think"), TextBlock("B")>>
              => text = "A\nB\n"
        /\ (\A k \in 1..Len(items) : ~IsBlockOfType(items[k], "text")) => text = ""
        /\ \A k \in 1..Len(items) :
              IsTextBlock(items[k]) => Contains(text, items[k].v["text"].v \o "\n")
        /\ Len(text) = Len(TextOf(items))

\* C9: the text of every result is the text extraction of its raw content.
C9_TextExtraction ==
    \A i \in Invocations :
        Complete(i) => C9_ExtractedText(ret[i].resp[1].Raw, ret[i].resp[1].Content)

\* C9 reached: [text A, tool_use, text B] extracted as "A\nB\n".
C9_Witness ==
    \E i \in Invocations :
        /\ Complete(i)
        /\ ret[i].resp[1].Raw["content"].v
              = <<TextBlock("A"), ToolUseBlock("tu_1", "think"), TextBlock("B")>>
        /\ ret[i].resp[1].Content = "A\nB\n"

(***************************************************************************)
(* C10.  The result of a successful run holds as raw the last decoded      *)
(* payload and as text the text of that payload only: in a two-turn run    *)
(* both come from the second response and no text block of the first       *)
(* response appears in the result.                                         *)
(***************************************************************************)
\* C10: raw and text of a result come from the last reply only.
C10_ResultIsLastPayload ==
    \A i \in Invocations :
        Complete(i) =>
            LET last == received[i][Len(received[i])]
                first == received[i][1]
            IN  /\ Len(received[i]) = Len(sent[i])
                /\ HasContentSeq(last)
                /\ ret[i].resp[1].Raw = FieldsOf(last)
                /\ ret[i].resp[1].Content = TextOf(ContentOf(last))
                /\ Len(received[i]) = 2 =>
                      /\ ret[i].resp[1].Raw = FieldsOf(received[i][2])
                      /\ \A k \in 1..Len(ContentOf(first)) :
                            IsTextBlock(ContentOf(first)[k]) =>
                                ~Contains(ret[i].resp[1].Content,
                                          ContentOf(first)[k].v["text"].v)

\* C10 reached: a two-turn run whose result is the second reply's "done\n".
C10_Witness ==
    \E i \in Invocations :
        /\ Complete(i)
        /\ Len(received[i]) = 2
        /\ ContentOf(received[i][1]) = <<TextBlock("A"), ToolUseBlock("tu_1", "think")>>
        /\ ContentOf(received[i][2]) = <<TextBlock("done")>>
        /\ ret[i].resp[1].Content = "done\n"
        /\ ret[i].resp[1].Raw = FieldsOf(received[i][2])

(***************************************************************************)
(* C11.  If the decoded first response has no stop_reason field, the run   *)
(* fails with a protocol error instead of returning a result.  As stated   *)
(* (C11_AsClaimed) this fails: the test of line 87 takes a missing         *)
(* stop_reason for a stop_reason other than "tool_use", and the run        *)
(* returns the result of that response.  What holds (C11_MissingStopReason)*)
(* is that such a run makes one call and returns the response's text, and  *)
(* fails only when the content is missing or is not a sequence.            *)
(***************************************************************************)
C11_NoStopReason(i) ==
    /\ Replied(i, 1)
    /\ Decodes(received[i][1])
    /\ "stop_reason" \notin DOMAIN FieldsOf(received[i][1])

\* C11 as claimed: a decoded first response without stop_reason makes the
\* run fail.
C11_AsClaimed ==
    \A i \in Invocations : C11_NoStopReason(i) => Failed(i)

\* C11 as amended: a decoded first response without stop_reason ends the run
\* after one call, with the text of its content when that is a sequence and
\* with the error "couldn't extract content from response" otherwise.
C11_MissingStopReason ==
    \A i \in Invocations :
        C11_NoStopReason(i) =>
            /\ Returned(i)
            /\ Len(sent[i]) = 1
            /\ IF HasContentSeq(received[i][1])
               THEN /\ Complete(i)
                    /\ ret[i].resp[1].Content = TextOf(ContentOf(received[i][1]))
                    /\ ret[i].resp[1].Raw = FieldsOf(received[i][1])
               ELSE /\ Failed(i)
                    /\ ret[i].err[1].msg = "couldn't extract content from response"

\* C11 reached: a reply without stop_reason holding the text "hello" has
\* given the result "hello\n".
C11_Witness ==
    \E i \in Invocations :
        /\ C11_NoStopReason(i)
        /\ HasContentSeq(received[i][1])
        /\ ContentOf(received[i][1]) = <<TextBlock("hello")>>
        /\ Complete(i)
        /\ ret[i].resp[1].Content = "hello\n"

(***************************************************************************)
(* C12.  A decoded response whose content field is missing or is not a     *)
(* sequence makes the run fail without a result: the first response on the *)
(* tool-use branch ("content field missing or invalid") and on the other   *)
(* branch ("couldn't extract content from response"), with no follow-up    *)
(* sent, and the final response ("couldn't extract content from            *)
(* response").                                                             *)
(***************************************************************************)
C12_Malformed(i, k) ==
    /\ Replied(i, k)
    /\ Decodes(received[i][k])
    /\ ~HasContentSeq(received[i][k])

\* C12: a decoded reply without a content sequence ends the run with an
\* error and no result, and no request follows it.
C12_MalformedContentFails ==
    \A i \in Invocations : \A k \in {1, 2} :
        C12_Malformed(i, k) =>
            /\ Failed(i)
            /\ ret[i].resp = Nil
            /\ Len(sent[i]) = k
            /\ Len(received[i]) = k
            /\ ret[i].err[1].msg =
                 IF k = 1 /\ StopReasonIs(received[i][1], "tool_use")
                 THEN "content field missing or invalid"
                 ELSE "couldn't extract content from response"

\* C12 reached: a final reply whose content is not a sequence has made a
\* two-call run fail.
C12_Witness ==
    \E i \in Invocations :
        /\ C12_Malformed(i, 2)
        /\ "content" \in DOMAIN FieldsOf(received[i][2])
        /\ Failed(i)
        /\ Len(sent[i]) = 2

(***************************************************************************)
(* C13.  If the bytes a successful SendRequest call returned do not decode *)
(* (json.Unmarshal into the map fails: the bytes are no JSON document, or  *)
(* are one that is neither an object nor null), the run fails with the     *)
(* parse error of that phase, "failed to parse initial response: ..." or   *)
(* "failed to parse final response: ...", and after undecodable initial    *)
(* bytes no follow-up request is sent.                                     *)
(***************************************************************************)
C13_Undecodable(i, k) ==
    /\ Replied(i, k)
    /\ received[i][k].err = Nil
    /\ ~Decodes(received[i][k])

C13_ParseTag(k) ==
    IF k = 1 THEN "failed to parse initial response: "
             ELSE "failed to parse final response: "

\* C13: bytes that do not decode end the run with the parse error of their
\* phase, and no request follows them.
C13_ParseFailure ==
    \A i \in Invocations : \A k \in {1, 2} :
        C13_Undecodable(i, k) =>
            /\ Failed(i)
            /\ HasPrefix(ret[i].err[1].msg, C13_ParseTag(k))
            /\ Len(ret[i].err[1].msg) > Len(C13_ParseTag(k))
            /\ Len(sent[i]) = k
            /\ Len(received[i]) = k

\* C13 reached: undecodable bytes as the first reply have ended the run
\* with the initial parse error after one call.
C13_Witness ==
    \E i \in Invocations :
        /\ C13_Undecodable(i, 1)
        /\ received[i][1].bytes[1] = Undecodable
        /\ Failed(i)
        /\ HasPrefix(ret[i].err[1].msg, "failed to parse initial response: ")
        /\ Len(sent[i]) = 1

(***************************************************************************)
(* C14.  Provided every SendRequest call returns, every run ends: it       *)
(* returns, what it returns is either a result or an error and never both  *)
(* or neither, and once it has returned nothing of the invocation changes  *)
(* any more.  Checked under FairSpec.                                      *)
(***************************************************************************)
C14_Outcome(i) == (ret[i].resp # Nil) # (ret[i].err # Nil)

C14_Own(i) ==
    <<pc[i], ret[i], sent[i], passed[i], received[i], content[i], userPrompt[i]>>

\* C14: every started run returns, with exactly one of result and error,
\* and takes no step afterwards.
C14_Terminates ==
    /\ \A i \in Invocations : (pc[i] = "Start") ~> Returned(i)
    /\ [](\A i \in Invocations :
            /\ Returned(i) => (C14_Outcome(i) /\ (Complete(i) \/ Failed(i)))
            /\ ~Returned(i) => ret[i] = NotReturned)
    /\ [][\A i \in Invocations : Returned(i) => C14_Own(i)' = C14_Own(i)]_vars

\* C14 reached: a run has ended with a result after two calls.
C14_Witness ==
    \E i \in Invocations :
        /\ Complete(i)
        /\ C14_Outcome(i)
        /\ Len(received[i]) = 2
        /\ thought[i] = "Japan is cool"
        /\ ContentOf(received[i][1]) = <<ToolUseBlock("tu_2", "other")>>

(***************************************************************************)
(* C15.  Two invocations running concurrently on the one service and the   *)
(* one client: under every interleaving, the requests and the result of    *)
(* each are those of a run of its own, fixed by its thought, its config    *)
(* and the replies it received; and a step of one invocation changes       *)
(* nothing of the other.  Checked under ConcurrentSpec.                    *)
(***************************************************************************)
\* The run of AnalyzeThought(th, cfg) on its own, as far as the replies it
\* has received take it: the requests it has sent, what it has returned,
\* and where it is.
C15_RunsAlone(th, cfg, environ, replies) ==
    LET prompt == ComposePrompt(th, cfg)
        first == InitialRequestMap(cfg, prompt)
    IN  IF ResolveAPIKey(cfg, environ) = ""
        THEN [sent |-> <<>>, at |-> "Returned",
              ret |-> Returns(Nil, Some(NewError(
                  "API key not found. Set it using the -apikey flag or ANTHROPIC_API_KEY environment variable")))]
        ELSE IF replies = <<>>
        THEN [sent |-> <<first>>, at |-> "AwaitingInitial", ret |-> NotReturned]
        ELSE LET step == InitialStep(replies[1])
                 found == ScanToolUse(step.items)
                 second == FollowUpRequestMap(cfg, prompt, step.items,
                                              found.toolUseID, ToolResult(th))
             IN  IF step.done
                 THEN [sent |-> <<first>>, at |-> "Returned", ret |-> step.r]
                 ELSE IF found.toolUseID = "" \/ found.toolName = ""
                 THEN [sent |-> <<first>>, at |-> "Returned",
                       ret |-> Returns(Nil, Some(NewError("couldn't find valid tool use block")))]
                 ELSE IF Len(replies) = 1
                 THEN [sent |-> <<first, second>>, at |-> "AwaitingFollowUp",
                       ret |-> NotReturned]
                 ELSE [sent |-> <<first, second>>, at |-> "Returned",
                       ret |-> FinalStep(replies[2])]

C15_Alone(i) == C15_RunsAlone(thought[i], config[i], env, received[i])

\* what belongs to invocation i
C15_Own(i) ==
    <<pc[i], thought[i], config[i], ctx[i], userPrompt[i], content[i], sent[i],
      passed[i], received[i], ret[i]>>

\* C15: whenever an invocation waits for a reply or has returned, its
\* requests and result are those of its run alone; before that they are a
\* prefix of them; and no step changes what belongs to two invocations.
C15_AsIfAlone ==
    /\ [](\A i \in Invocations :
            /\ pc[i] \in {"AwaitingInitial", "AwaitingFollowUp", "Returned"} =>
                  /\ sent[i] = C15_Alone(i).sent
                  /\ ret[i] = C15_Alone(i).ret
                  /\ pc[i] = C15_Alone(i).at
            /\ pc[i] = "Start" => sent[i] = <<>> /\ ret[i] = NotReturned
            /\ pc[i] = "ToolUseDetected" =>
                  /\ sent[i] = SubSeq(C15_Alone(i).sent, 1, 1)
                  /\ ret[i] = NotReturned)
    /\ [][\A i, j \in Invocations :
            (i # j /\ C15_Own(i)' # C15_Own(i)) => C15_Own(j)' = C15_Own(j)]_vars

\* C15 reached: both invocations have returned a result, with different
\* thoughts and prompts, invocation 1 after two calls and invocation 2,
\* which sent its request first, after one.
C15_Witness ==
    /\ Complete(1) /\ Len(sent[1]) = 2
    /\ Complete(2) /\ Len(sent[2]) = 1
    /\ thought[1] # thought[2]
    /\ config[1].ThoughtPrompt # config[2].ThoughtPrompt
    /\ Len(stdout) = 2
    /\ stdout[1][2] = sent[2][1]
    /\ stdout[2][2] = sent[1][1]

(***************************************************************************)
(* C16.  Both SendRequest calls of a run are given the context the caller  *)
(* supplied, with its one deadline; a call that returns the timeout error  *)
(* of an elapsed deadline ends the run with the transport failure of its   *)
(* phase, the timeout as its cause, and no further call; and a reply that  *)
(* comes after the deadline has elapsed is that timeout error.             *)
(***************************************************************************)
C16_TimedOut(o) == o.err = Some(DeadlineExceeded)

C16_Tag(k) == IF k = 1 THEN "initial request failed: " ELSE "follow-up request failed: "

C16_EndsAsTransportFailure(i, k) ==
    /\ Failed(i)
    /\ ret[i].err[1].msg = C16_Tag(k) \o DeadlineExceeded.msg
    /\ ret[i].err[1].wrapped = Some(DeadlineExceeded)
    /\ Len(sent[i]) = k
    /\ Len(received[i]) = k

\* C16: every call carries the caller's context; a timed-out call ends the
\* run as the transport failure of its phase without a retry; after the
\* deadline no call of the run succeeds.
C16_OneDeadline ==
    /\ [](\A i \in Invocations :
            /\ Len(passed[i]) = Len(sent[i])
            /\ \A k \in 1..Len(passed[i]) : passed[i][k] = ctx[i]
            /\ \A k \in 1..Len(received[i]) :
                  C16_TimedOut(received[i][k]) => C16_EndsAsTransportFailure(i, k))
    /\ [][\A i \in Invocations :
            (ctx[i] \in expired /\ Len(received[i]') > Len(received[i])) =>
                C16_TimedOut(received[i]'[Len(received[i]')])]_vars

\* C16 reached: the deadline elapsed during the second call, and the run
\* ended with the follow-up failure that wraps the timeout.
C16_Witness ==
    \E i \in Invocations :
        /\ ctx[i] \in expired
        /\ passed[i] = <<ctx[i], ctx[i]>>
        /\ Len(received[i]) = 2
        /\ received[i][1].err = Nil
        /\ C16_TimedOut(received[i][2])
        /\ C16_EndsAsTransportFailure(i, 2)

(***************************************************************************)
(* C17.  Within one invocation at most one request is in flight: a request *)
(* is sent only when every earlier one has been answered, and the          *)
(* follow-up request is sent only after the initial response has been      *)
(* received, has decoded, and has been found to ask for a tool use and to  *)
(* hold a tool_use block.                                                  *)
(***************************************************************************)
\* the requests of invocation i that are sent and not yet answered
C17_InFlight(i) == Len(sent[i]) - Len(received[i])

\* C17: never two requests in flight, a request goes out only when none is,
\* and the follow-up follows a decoded tool-use reply with a tool_use block.
C17_OneInFlight ==
    /\ [](\A i \in Invocations :
            /\ C17_InFlight(i) \in {0, 1}
            /\ C17_InFlight(i) = 1 <=> pc[i] \in {"AwaitingInitial", "AwaitingFollowUp"}
            /\ Len(sent[i]) >= 2 =>
                  /\ Replied(i, 1)
                  /\ StopReasonIs(received[i][1], "tool_use")
                  /\ HasContentSeq(received[i][1])
                  /\ ToolUsesOf(ContentOf(received[i][1])) # <<>>)
    /\ [][\A i \in Invocations :
            Len(sent[i]') > Len(sent[i]) =>
                /\ C17_InFlight(i) = 0
                /\ Len(sent[i]') = Len(sent[i]) + 1
                /\ received[i]' = received[i]]_vars

\* C17 reached: the follow-up request is in flight, the initial one answered.
C17_Witness ==
    \E i \in Invocations :
        /\ pc[i] = "AwaitingFollowUp"
        /\ Len(sent[i]) = 2
        /\ Len(received[i]) = 1
        /\ C17_InFlight(i) = 1
        /\ StopReasonIs(received[i][1], "tool_use")

(***************************************************************************)
(* C18.  With config.APIKey empty and ANTHROPIC_API_KEY unset or empty     *)
(* (os.Getenv gives "" for both), the run returns the "API key not found"  *)
(* error and SendRequest is never called; with either of them non-empty    *)
(* the run passes the check: it sends its initial request and never        *)
(* returns that error.                                                     *)
(***************************************************************************)
C18_NoKey(i) == config[i].APIKey = "" /\ env = ""

C18_KeyNotFound(i) ==
    /\ Failed(i)
    /\ HasPrefix(ret[i].err[1].msg, "API key not found")

\* C18: past its first step, a run without any key has failed with "API key
\* not found" and no call, and a run with a key has made its first call.
C18_CredentialCheck ==
    \A i \in Invocations :
        pc[i] \notin {"Unused", "Start"} =>
            IF C18_NoKey(i)
            THEN /\ C18_KeyNotFound(i)
                 /\ sent[i] = <<>>
                 /\ passed[i] = <<>>
                 /\ received[i] = <<>>
            ELSE /\ Len(sent[i]) >= 1
                 /\ ~C18_KeyNotFound(i)

\* C18 reached: a run without a key in the config and in the environment
\* has returned the error, no request sent.
C18_Witness ==
    \E i \in Invocations :
        /\ C18_NoKey(i)
        /\ C18_KeyNotFound(i)
        /\ sent[i] = <<>>

(***************************************************************************)
(* C19.  The x-api-key header of every request carries the value of the    *)
(* -apikey flag (config.APIKey) when that is non-empty, and the value of   *)
(* ANTHROPIC_API_KEY otherwise.  The code does otherwise: main makes the   *)
(* client with the environment's key alone, and the flag's value is only   *)
(* tested for presence by AnalyzeThought; a run with -apikey set sends the *)
(* environment's key, or an empty one.                                     *)
(***************************************************************************)
\* C19 as claimed: each request sent carries the flag's key when there is
\* one and the environment's key otherwise.
C19_HeaderKeyAsClaimed ==
    \A i \in Invocations : \A k \in 1..Len(sent[i]) :
        Headers(apiClient)["x-api-key"] =
            IF config[i].APIKey # "" THEN config[i].APIKey ELSE env

(***************************************************************************)
(* C20.  The prompt of a run, the content of the user message that opens   *)
(* each of its requests, is template + " " + thought when the template is  *)
(* non-empty and "Please analyze the following thought: " + thought        *)
(* otherwise; the thought is its suffix, unchanged.                        *)
(***************************************************************************)
\* the text of the user message that opens the request
C20_PromptOf(request) == FieldText(MessagesOf(request)[1], "content")

C20_Template(i) == config[i].ThoughtPrompt

\* C20: every request of a run opens with the user message whose text is
\* the template, a space and the thought, or the default lead and the
\* thought; it ends with the thought.
C20_PromptComposition ==
    \A i \in Invocations : \A k \in 1..Len(sent[i]) :
        LET prompt == C20_PromptOf(sent[i][k])
        IN  /\ FieldText(MessagesOf(sent[i][k])[1], "role") = "user"
            /\ C20_Template(i) # "" =>
                  /\ Len(prompt) = Len(C20_Template(i)) + 1 + Len(thought[i])
                  /\ HasPrefix(prompt, C20_Template(i) \o " ")
            /\ C20_Template(i) = "" =>
                  /\ Len(prompt) = Len("Please analyze the following thought: ") + Len(thought[i])
                  /\ HasPrefix(prompt, "Please analyze the following thought: ")
            /\ HasSuffix(prompt, thought[i])
            /\ prompt = userPrompt[i]

\* C20 reached: a request composed from a template, and the same prompt
\* kept in the follow-up request.
C20_Witness ==
    \E i \in Invocations :
        /\ Len(sent[i]) = 2
        /\ C20_Template(i) = "Critically evaluate this hypothesis:"
        /\ thought[i] = "Launch it"
        /\ C20_PromptOf(sent[i][1]) = "Critically evaluate this hypothesis: Launch it"
        /\ C20_PromptOf(sent[i][2]) = "Critically evaluate this hypothesis: Launch it"

(***************************************************************************)
(* C21.  The initial request has exactly one message (role user, content   *)
(* the composed prompt), the model and max_tokens of the config, and a     *)
(* tools list of exactly one element, the think tool with the fields type  *)
(* "custom", name "think", description and input_schema (an object schema  *)
(* requiring the string field thought), the same for every invocation.     *)
(* The message, the model, max_tokens and the length of the tools list     *)
(* are as stated.  The fields of the tool are not, when domain.Tool is     *)
(* the declaration without json tags: the element of the tools list then   *)
(* has the fields Type, Name, Description and InputSchema, and none of     *)
(* type, name, description and input_schema (C21_InitialRequestAsClaimed   *)
(* is violated).                                                           *)
(***************************************************************************)
\* an object schema that requires the string field thought
C21_RequiresThought(schema) ==
    /\ schema.t = "object"
    /\ FieldText(schema, "type") = "object"
    /\ "properties" \in DOMAIN schema.v
    /\ schema.v["properties"].t = "object"
    /\ "thought" \in DOMAIN schema.v["properties"].v
    /\ schema.v["properties"].v["thought"].t = "object"
    /\ FieldText(schema.v["properties"].v["thought"], "type") = "string"
    /\ "required" \in DOMAIN schema.v
    /\ schema.v["required"] = JArr(<<JStr("thought")>>)

C21_IsThinkTool(tool) ==
    /\ tool.t = "object"
    /\ FieldText(tool, "type") = "custom"
    /\ FieldText(tool, "name") = "think"
    /\ FieldText(tool, "description") # ""
    /\ "input_schema" \in DOMAIN tool.v
    /\ C21_RequiresThought(tool.v["input_schema"])

C21_InitialRequestAsClaimed ==
    \A i \in Invocations :
        Len(sent[i]) >= 1 =>
            LET request == sent[i][1] IN
            /\ Len(MessagesOf(request)) = 1
            /\ FieldText(MessagesOf(request)[1], "role") = "user"
            /\ C20_PromptOf(request) =
                   (IF C20_Template(i) # "" THEN C20_Template(i) \o " "
                    ELSE "Please analyze the following thought: ") \o thought[i]
            /\ request.v["model"] = JStr(config[i].Model)
            /\ request.v["max_tokens"] = JNum(config[i].MaxTokens)
            /\ Len(request.v["tools"].v) = 1
            /\ C21_IsThinkTool(request.v["tools"].v[1])
            /\ \A j \in Invocations :
                   Len(sent[j]) >= 1 => sent[j][1].v["tools"] = request.v["tools"]

(***************************************************************************)
(* C22.  In interactive mode each line of standard input is analysed as    *)
(* one separate thought: AnalyzeThought is called once per entered line,   *)
(* in input order, with the line's text as the thought, and a line "exit"  *)
(* or "quit" is not analysed.  C22_PerLineAsClaimed states it on the       *)
(* recorded calls: the thoughts of the calls made so far are the first of  *)
(* the lines entered before the first "exit" or "quit", in order, and      *)
(* when the session has ended every such line has been analysed.  The      *)
(* loop does otherwise: it reads standard input to its end and hands the   *)
(* whole text, newlines included, to one call.                             *)
(***************************************************************************)
\* the chunks written to standard input, joined
RECURSIVE C22_Joined(_)
C22_Joined(chunks) ==
    IF chunks = <<>> THEN "" ELSE Head(chunks) \o C22_Joined(Tail(chunks))

\* the lines of a text: what stands before each newline, and what stands
\* after the last one when that is not empty (line is the line being read)
RECURSIVE C22_LinesOf(_, _)
C22_LinesOf(text, line) ==
    IF Len(text) = 0 THEN (IF line = "" THEN <<>> ELSE <<line>>)
    ELSE IF SubSeq(text, 1, 1) = "\n"
    THEN <<line>> \o C22_LinesOf(SubSeq(text, 2, Len(text)), "")
    ELSE C22_LinesOf(SubSeq(text, 2, Len(text)), line \o SubSeq(text, 1, 1))

\* the lines before the first "exit" or "quit"
RECURSIVE C22_BeforeExit(_)
C22_BeforeExit(lines) ==
    IF lines = <<>> \/ Head(lines) \in {"exit", "quit"} THEN <<>>
    ELSE <<Head(lines)>> \o C22_BeforeExit(Tail(lines))

C22_Thoughts == C22_BeforeExit(C22_LinesOf(C22_Joined(typed), ""))

C22_PerLineAsClaimed ==
    flags.interactive =>
        /\ Len(cliCalls) <= Len(C22_Thoughts)
        /\ \A k \in 1..Len(cliCalls) :
              k <= Len(C22_Thoughts) => cliCalls[k].thought = C22_Thoughts[k]
        /\ cliPc = "Exited" => Len(cliCalls) = Len(C22_Thoughts)

(***************************************************************************)
(* C23.  An interactive session terminates: once a line "exit" or "quit"   *)
(* has been entered, or standard input has reached its end, the loop       *)
(* makes only finitely many further AnalyzeThought calls and then returns. *)
(* C23_SessionEndsAsClaimed states it for the session whose steps are      *)
(* taken as long as one is possible (SessionSpec).  The loop does          *)
(* otherwise: at the end of standard input every further read returns      *)
(* the empty text, which is neither "exit" nor "quit", and is analysed.    *)
(***************************************************************************)
C23_ExitEntered ==
    \E k \in 1..Len(C22_LinesOf(C22_Joined(typed), "")) :
        C22_LinesOf(C22_Joined(typed), "")[k] \in {"exit", "quit"}

C23_SessionEndsAsClaimed ==
    (flags.interactive /\ (stdin.closed \/ C23_ExitEntered)) ~> (cliPc \in {"Exited", "Fatal"})

(***************************************************************************)
(* C24.  ClaudeAPIClient.SendRequest returns the response body and no      *)
(* error exactly when the HTTP status is 200; for every other status it    *)
(* returns no bytes and an error that carries the status code and the      *)
(* response body.  As stated (C24_AsClaimed) this fails when reading the   *)
(* body fails: with status 200 the call then returns an error, and with    *)
(* another status the error carries the status code but no body.  It       *)
(* holds with the reading of the body taken in (C24_StatusContract).       *)
(***************************************************************************)
\* the call has returned
C24_Returned == result # Nil

\* a response was received: the request went out and the transport gave
\* a response back
C24_Responded == exchange.serializable /\ exchange.failure = Nil

C24_Success == result[1].err = Nil /\ result[1].bytes # Nil

C24_Failure == result[1].err # Nil /\ result[1].bytes = Nil

\* the error's message holds the status code and, if asked, the body
C24_Carries(withBody) ==
    /\ C24_Failure
    /\ Contains(result[1].err[1].msg, ToString(exchange.status))
    /\ withBody => Contains(result[1].err[1].msg, exchange.body)

C24_AsClaimed ==
    C24_Returned =>
        /\ C24_Success <=> (C24_Responded /\ exchange.status = 200)
        /\ C24_Success => result[1].bytes = Some(exchange.body)
        /\ (C24_Responded /\ exchange.status # 200) => C24_Carries(TRUE)

\* C24: the body and no error exactly when the status is 200 and the body
\* was read; for every other status no bytes and an error with the status
\* code and, when the body was read, the body.
C24_StatusContract ==
    C24_Returned =>
        /\ C24_Success <=>
              (C24_Responded /\ exchange.status = 200 /\ ~exchange.readFails)
        /\ C24_Success => result[1].bytes = Some(exchange.body)
        /\ ~C24_Success => C24_Failure
        /\ (C24_Responded /\ exchange.status # 200) => C24_Carries(~exchange.readFails)

\* C24 reached: a 400 response whose body was read, returned as an error
\* that holds the code and the body
C24_Witness ==
    /\ C24_Returned
    /\ C24_Responded
    /\ exchange.status = 400
    /\ ~exchange.readFails
    /\ exchange.body # ""
    /\ C24_Carries(TRUE)

(***************************************************************************)
(* C25.  FormatOutput returns response.Content unchanged for format        *)
(* "text", and the indented JSON encoding of response.Raw for format       *)
(* "json" and for every other format string.  Stated on the runs without   *)
(* -interactive that ended with an analysis: what was printed (followed    *)
(* by a newline), or written to the -output file, is the text of the       *)
(* response for -format text and otherwise the encoding of its Raw, an     *)
(* object written over several lines with its fields indented by two       *)
(* spaces.                                                                 *)
(***************************************************************************)
\* a run without -interactive, -version and -help has returned
C25_Analysed ==
    /\ cliPc = "Exited"
    /\ ~flags.interactive /\ ~flags.version /\ ~flags.help

\* the response the service returned to the run's call
C25_Response == AnalyzeThoughtFunc(cliCalls[1].thought, "response").resp[1]

\* the formatted output of the run: what was written to the -output file,
\* or what was printed without the newline of Println
C25_Output ==
    IF flags.output # "" THEN files[flags.output].data
    ELSE SubSeq(console[1], 1, Len(console[1]) - 1)

C25_IndentedObject(text) ==
    /\ HasPrefix(text, "{\n  \"")
    /\ HasSuffix(text, "\n}")

C25_FormatContract ==
    C25_Analysed =>
        /\ Len(cliCalls) = 1 /\ Len(console) = 1
        /\ flags.format = "text" => C25_Output = C25_Response.Content
        /\ flags.format # "text" =>
              /\ C25_Output = MarshalIndent(C25_Response.Raw)
              /\ C25_IndentedObject(C25_Output)

\* C25 reached: a run with a format that is neither "text" nor "json" has
\* printed its output
C25_Witness ==
    /\ C25_Analysed
    /\ flags.format \notin {"text", "json"}
    /\ flags.output = ""
    /\ console # <<>>

(***************************************************************************)
(* C26.  In non-interactive mode the thought handed to AnalyzeThought is   *)
(* chosen by fixed precedence: the content of the -input file if that      *)
(* flag is set, else the first positional argument if there is one, else   *)
(* the built-in default thought; it is passed unchanged and AnalyzeThought *)
(* is called exactly once.  As stated (C26_AsClaimed) this fails when the  *)
(* -input file cannot be read: the run then ends by log.Fatalf before any  *)
(* call.  It holds for the runs whose -input file, if one is named, is     *)
(* read (C26_ThoughtPrecedence), and the run that cannot read it makes no  *)
(* call.                                                                   *)
(***************************************************************************)
\* a run in non-interactive mode has ended, by its return or by log.Fatalf
C26_Ended ==
    /\ cliPc \in {"Exited", "Fatal"}
    /\ ~flags.interactive /\ ~flags.version /\ ~flags.help

\* the thought of the precedence
C26_Chosen ==
    IF flags.input # "" THEN CLIFiles[flags.input].data
    ELSE IF flags.args # <<>> THEN Head(flags.args)
    ELSE "I believe we should launch the new feature next week because our testing shows it improves user engagement by 23% and reduces load times by 15%, which addresses our Q2 goals. The only concern is that we haven't completed security testing, but I think we can do that in parallel during a limited rollout."

C26_OneCallWithChosen ==
    /\ Len(cliCalls) = 1
    /\ cliCalls[1].thought = C26_Chosen

C26_AsClaimed == C26_Ended => C26_OneCallWithChosen

C26_ThoughtPrecedence ==
    C26_Ended =>
        IF flags.input # "" /\ CLIFiles[flags.input].kind # "file"
        THEN cliCalls = <<>> /\ cliPc = "Fatal"
        ELSE C26_OneCallWithChosen

\* C26 reached: a run with both -input and positional arguments has handed
\* the file's content to its one call
C26_Witness ==
    /\ C26_Ended
    /\ flags.input = "in.txt"
    /\ flags.args # <<>>
    /\ Len(cliCalls) = 1
    /\ cliCalls[1].thought = "This is a thought from a file"

(***************************************************************************)
(* C27.  For every path and content, WriteToFile(path, content) that       *)
(* succeeds followed by ReadFromFile(path) returns exactly content; a      *)
(* later write to the same path replaces the earlier content.  Stated on   *)
(* the recorded calls: a read of a path returns, without error, the        *)
(* content of the last write to that path before it, when that write       *)
(* succeeded.                                                              *)
(***************************************************************************)
C27_IsWrite(k, filePath) == ops[k].op = "WriteToFile" /\ ops[k].filePath = filePath

C27_IsRead(k) == ops[k].op = "ReadFromFile"

\* call k is the last write to the path before call m
C27_LastWriteBefore(k, m, filePath) ==
    /\ k < m
    /\ C27_IsWrite(k, filePath)
    /\ \A j \in (k + 1)..(m - 1) : ~C27_IsWrite(j, filePath)

C27_RoundTrip ==
    \A m \in 1..Len(ops) : \A k \in 1..Len(ops) :
        (/\ C27_IsRead(m)
         /\ C27_LastWriteBefore(k, m, ops[m].filePath)
         /\ ops[k].err = Nil)
        => (ops[m].err = Nil /\ ops[m].data = ops[k].data)

\* C27 reached: two writes of different contents to a path that held a
\* file, both successful, and then a read of it that returned the second
C27_Witness ==
    /\ Len(ops) = 3
    /\ C27_IsWrite(1, "out.txt") /\ ops[1].err = Nil
    /\ C27_IsWrite(2, "out.txt") /\ ops[2].err = Nil
    /\ ops[1].data # ops[2].data
    /\ C27_IsRead(3) /\ ops[3].filePath = "out.txt"
    /\ ops[3].err = Nil /\ ops[3].data = ops[2].data

(***************************************************************************)
(* C28.  The scan for a tool-use block stops at the first block of type    *)
(* "tool_use" whether or not it is usable: if that block's id or name is   *)
(* missing or empty, the run fails with "couldn't find valid tool use      *)
(* block" and sends no follow-up, even when a later tool_use block of the  *)
(* same content has both an id and a name.                                 *)
(***************************************************************************)
\* the first response asks for a tool and the first tool_use block of its
\* content lacks an id or a name
C28_FirstUnusable(i) ==
    /\ Replied(i, 1)
    /\ StopReasonIs(received[i][1], "tool_use")
    /\ HasContentSeq(received[i][1])
    /\ ToolUsesOf(ContentOf(received[i][1])) # <<>>
    /\ ~Usable(ToolUsesOf(ContentOf(received[i][1]))[1])

\* a later tool_use block of the content has both
C28_LaterUsable(i) ==
    \E k \in 2..Len(ToolUsesOf(ContentOf(received[i][1]))) :
        Usable(ToolUsesOf(ContentOf(received[i][1]))[k])

C28_FirstBlockDecides ==
    \A i \in Invocations :
        C28_FirstUnusable(i) =>
            /\ Len(sent[i]) = 1
            /\ pc[i] \in {"ToolUseDetected", "Returned"}
            /\ Returned(i) =>
                  /\ Failed(i)
                  /\ ret[i].err[1].msg = "couldn't find valid tool use block"

\* C28 reached: a tool_use block without an id, followed by a usable one,
\* ended the run with the error after one request
C28_Witness ==
    \E i \in Invocations :
        /\ C28_FirstUnusable(i)
        /\ C28_LaterUsable(i)
        /\ Failed(i)
        /\ ret[i].err[1].msg = "couldn't find valid tool use block"
        /\ Len(sent[i]) = 1

(***************************************************************************)
(* C29.  The final (second) response is never inspected for its            *)
(* stop_reason: whatever it is, "tool_use" included, a decodable final     *)
(* response with a content sequence completes the run with the normalized  *)
(* final response, and no third request is sent.                           *)
(***************************************************************************)
\* the second reply decodes and has a content sequence
C29_FinalUsable(i) ==
    /\ Replied(i, 2)
    /\ Decodes(received[i][2])
    /\ HasContentSeq(received[i][2])

C29_FinalStopReasonIgnored ==
    \A i \in Invocations :
        C29_FinalUsable(i) =>
            /\ Complete(i)
            /\ ret[i].resp[1].Raw = FieldsOf(received[i][2])
            /\ ret[i].resp[1].Content = TextOf(ContentOf(received[i][2]))
            /\ Len(sent[i]) = 2
            /\ Len(received[i]) = 2

\* C29 reached: a final response with stop_reason "tool_use" and a tool_use
\* block completed the run
C29_Witness ==
    \E i \in Invocations :
        /\ C29_FinalUsable(i)
        /\ StopReasonIs(received[i][2], "tool_use")
        /\ ToolUsesOf(ContentOf(received[i][2])) # <<>>
        /\ Complete(i)
        /\ Len(sent[i]) = 2

(***************************************************************************)
(* C30.  AnalyzeThought returns exactly one of a result and an error on    *)
(* every path: either a non-nil response with a nil error, or a nil        *)
(* response with a non-nil error, never both and never neither.            *)
(***************************************************************************)
C30_HasResponse(i) == ret[i].resp # Nil

C30_HasError(i) == ret[i].err # Nil

C30_ExactlyOne ==
    \A i \in Invocations :
        Returned(i) =>
            /\ C30_HasResponse(i) \/ C30_HasError(i)
            /\ ~(C30_HasResponse(i) /\ C30_HasError(i))

\* C30 reached: a run whose response has no content sequence has returned
\* the error and no response
C30_Witness ==
    \E i \in Invocations :
        /\ Returned(i)
        /\ Replied(i, 1)
        /\ Decodes(received[i][Len(received[i])])
        /\ ~HasContentSeq(received[i][Len(received[i])])
        /\ C30_HasError(i)
        /\ ret[i].err[1].msg = "couldn't extract content from response"
        /\ ~C30_HasResponse(i)


(***************************************************************************)
(* C31.  The orchestrator never compares the requested tool's name with    *)
(* "think": a first tool_use block with any non-empty name and non-empty   *)
(* id leads to the same follow-up request, with the same tool result, as   *)
(* one named "think"; the name and the block's input do not influence any  *)
(* request.  As stated (C31_AsClaimed) this fails: the follow-up request   *)
(* repeats the content of the first response in its assistant message,     *)
(* and with it the block's name and input.  Everything else of the         *)
(* follow-up request is the same as for a block named "think"              *)
(* (C31_NameNotCompared).                                                  *)
(***************************************************************************)
\* the first response asks for a tool with a first tool_use block that has an
\* id and a name, and the scan of its content is over
C31_Asked(i) ==
    /\ Replied(i, 1)
    /\ StopReasonIs(received[i][1], "tool_use")
    /\ HasContentSeq(received[i][1])
    /\ ToolUsesOf(ContentOf(received[i][1])) # <<>>
    /\ Usable(ToolUsesOf(ContentOf(received[i][1]))[1])
    /\ pc[i] # "ToolUseDetected"

\* the block with the name "think" and the think tool's input
C31_AsThink(block) ==
    JObj([f \in DOMAIN block.v |->
             IF f = "name" THEN JStr("think")
             ELSE IF f = "input" THEN JObj([thought |-> JStr("t")])
             ELSE block.v[f]])

\* the content with its first tool_use block turned into one of the think tool
RECURSIVE C31_Renamed(_)
C31_Renamed(items) ==
    IF items = <<>> THEN <<>>
    ELSE IF IsToolUse(Head(items)) THEN <<C31_AsThink(Head(items))>> \o Tail(items)
    ELSE <<Head(items)>> \o C31_Renamed(Tail(items))

\* the follow-up request of invocation i for a first response with these
\* items: model and max_tokens of the config, the user message of the first
\* request, the items, and the tool result keyed by the first tool_use block
C31_FollowUpFor(i, items) ==
    JObj([model |-> JStr(config[i].Model),
          max_tokens |-> JNum(config[i].MaxTokens),
          messages |->
              JArr(<<MessagesOf(sent[i][1])[1],
                     JObj([role |-> JStr("assistant"), content |-> JArr(items)]),
                     JObj([role |-> JStr("user"),
                           content |-> JArr(<<JObj([
                               type |-> JStr("tool_result"),
                               tool_use_id |-> JStr(FieldText(ToolUsesOf(items)[1], "id")),
                               content |-> JStr(IF thought[i] = "Japan is cool"
                                                THEN JapanToolResult
                                                ELSE DefaultToolResult)])>>)])>>)])

\* a request without the content of its assistant messages
C31_OutsideEcho(request) ==
    [f \in DOMAIN request.v |->
        IF f # "messages" THEN request.v[f]
        ELSE JArr([k \in 1..Len(request.v[f].v) |->
                      IF request.v[f].v[k].v["role"] = JStr("assistant")
                      THEN JObj([role |-> JStr("assistant")])
                      ELSE request.v[f].v[k]])]

\* C31 as claimed: the follow-up request is the one that a first tool_use
\* block named "think" leads to.
C31_AsClaimed ==
    \A i \in Invocations :
        C31_Asked(i) =>
            /\ Len(sent[i]) = 2
            /\ sent[i][2] = C31_FollowUpFor(i, C31_Renamed(ContentOf(received[i][1])))

\* C31 as amended: whatever the name of the first tool_use block, a follow-up
\* request is sent, and outside the assistant message, which repeats the
\* content of the first response, it is the one that a block named "think"
\* leads to.
C31_NameNotCompared ==
    \A i \in Invocations :
        C31_Asked(i) =>
            /\ Len(sent[i]) = 2
            /\ C31_OutsideEcho(sent[i][2])
                  = C31_OutsideEcho(C31_FollowUpFor(i, C31_Renamed(ContentOf(received[i][1]))))
            /\ sent[i][2] = C31_FollowUpFor(i, ContentOf(received[i][1]))

\* C31 reached: the tool "other" is asked for with an input of its own, and
\* the follow-up request carries the default tool result for its id and
\* repeats the block.
C31_Witness ==
    \E i \in Invocations :
        /\ C31_Asked(i)
        /\ ContentOf(received[i][1]) = <<TextBlock("A"), ToolUseBlock("tu_2", "other")>>
        /\ thought[i] = "Launch it"
        /\ Len(sent[i]) = 2
        /\ LastMessageOf(sent[i][2]).v["content"].v
              = <<ToolResultBlock("tu_2", DefaultToolResult)>>
        /\ MessagesOf(sent[i][2])[2].v["content"].v[2].v["name"] = JStr("other")
        /\ MessagesOf(sent[i][2])[2].v["content"].v[2].v["input"]
              = JObj([query |-> JStr("q")])


(***************************************************************************)
(* C32.  The run is deterministic: the tool result placed in the follow-up *)
(* is a function of the thought alone (the special text exactly when the   *)
(* thought equals "Japan is cool", the default text otherwise), so two     *)
(* runs with the same thought, config and client responses send identical  *)
(* requests and return identical results.                                  *)
(***************************************************************************)
\* the text of the tool result in invocation i's follow-up request
C32_ToolResultText(i) == LastMessageOf(sent[i][2]).v["content"].v[1].v["content"]

\* the two invocations were given the same thought and config
C32_SameArguments(i, j) == thought[i] = thought[j] /\ config[i] = config[j]

\* the replies of the client to the first k calls were the same for both
C32_SameReplies(i, j, k) ==
    /\ Len(received[i]) >= k
    /\ Len(received[j]) >= k
    /\ \A n \in 1..k : received[i][n] = received[j][n]

\* C32: the tool result is chosen by the thought alone, and invocations with
\* the same thought and config send the same first request, the same
\* follow-up request after the same first reply, and return the same after
\* the same replies.
C32_Deterministic ==
    /\ \A i \in Invocations :
          Len(sent[i]) >= 2 =>
              C32_ToolResultText(i)
                  = JStr(IF thought[i] = "Japan is cool" THEN JapanToolResult
                         ELSE DefaultToolResult)
    /\ \A i, j \in Invocations :
          C32_SameArguments(i, j) =>
              /\ (Len(sent[i]) >= 1 /\ Len(sent[j]) >= 1) => sent[i][1] = sent[j][1]
              /\ (C32_SameReplies(i, j, 1) /\ Len(sent[i]) >= 2 /\ Len(sent[j]) >= 2)
                    => sent[i][2] = sent[j][2]
              /\ (Returned(i) /\ Returned(j) /\ received[i] = received[j])
                    => (sent[i] = sent[j] /\ ret[i] = ret[j])

\* C32 reached: two runs on "Japan is cool" with the same config and the same
\* two replies have sent the same two requests, the second with the special
\* text, and returned the same result.
C32_Witness ==
    /\ C32_SameArguments(1, 2)
    /\ thought[1] = "Japan is cool"
    /\ Complete(1) /\ Complete(2)
    /\ C32_SameReplies(1, 2, 2)
    /\ Len(sent[1]) = 2 /\ sent[1] = sent[2]
    /\ C32_ToolResultText(1) = JStr(JapanToolResult)
    /\ ret[1] = ret[2]
    /\ ret[1].resp[1].Content = "done\n"


(***************************************************************************)
(* C33.  When the Verbose option is off, AnalyzeThought writes nothing to  *)
(* standard output, so the standard output of a non-interactive run        *)
(* consists only of the formatted result (or of the "Analysis written to"  *)
(* line when -output is set); in particular with -format json the          *)
(* standard output is a single JSON document.  The program does otherwise  *)
(* (C33_QuietAsClaimed is violated): AnalyzeThought prints the initial     *)
(* request after "API Request: " whatever the Verbose option is.           *)
(***************************************************************************)
\* a run of the program without -verbose
C33_VerboseOff == ~flags.verbose /\ (pc[1] # "Unused" => ~config[1].Verbose)

\* what the run itself has printed is the one line of its result
C33_OnlyTheResult ==
    /\ Len(console) = 1
    /\ IF flags.output # ""
       THEN console[1] = "Analysis written to " \o flags.output \o "\n"
       ELSE /\ flags.format = "text" => console[1] = ret[1].resp[1].Content \o "\n"
            /\ flags.format = "json" =>
                  /\ HasPrefix(console[1], "{\n  \"")
                  /\ HasSuffix(console[1], "\n}\n")

\* C33 as claimed: without -verbose the service prints nothing, and the
\* standard output of a run that has returned holds only the result's line.
C33_QuietAsClaimed ==
    C33_VerboseOff =>
        /\ stdout = <<>>
        /\ cliPc = "Exited" => C33_OnlyTheResult


(***************************************************************************)
(* C34.  In interactive mode every AnalyzeThought call of the session      *)
(* receives the same context, created once before the loop with the       *)
(* -timeout deadline; the deadline is not renewed per thought, so once it  *)
(* has elapsed every later analysis of that session sees an expired        *)
(* context.                                                                *)
(***************************************************************************)
\* the context made for the session: the one of the command line run, with
\* the deadline of -timeout
C34_SessionContext == [caller |-> "cli", deadline |-> flags.timeout]

\* the session's deadline has elapsed
C34_Elapsed == C34_SessionContext \in expired

\* this step of the loop calls AnalyzeThought
C34_Calls ==
    /\ cliPc = "Reading" /\ cliPc' = "Analyzing"
    /\ Len(cliCalls') = Len(cliCalls) + 1

\* C34: each call of the session is given the session's one context; a
\* deadline that has elapsed stays so, and a call made after it is given a
\* context that has expired.
C34_OneSessionContext ==
    [][ /\ \A k \in 1..Len(cliCalls') :
              flags.interactive => cliCalls'[k].ctx = C34_SessionContext
        /\ C34_Elapsed => C34_Elapsed'
        /\ (C34_Elapsed /\ C34_Calls) => cliCalls'[Len(cliCalls')].ctx \in expired'
      ]_vars

\* C34 reached: the deadline of -timeout 60s has elapsed after a first call,
\* and the session has made a second call, with the same, expired context.
C34_Witness ==
    /\ flags.interactive /\ flags.timeout = 60
    /\ Len(cliCalls) = 2
    /\ cliCalls[1].ctx = cliCalls[2].ctx
    /\ cliCalls[2].ctx = [caller |-> "cli", deadline |-> 60]
    /\ cliCalls[2].ctx \in expired
    /\ cliPc = "Analyzing"


(***************************************************************************)
(* C35.  In interactive mode an error returned by AnalyzeThought does not  *)
(* end the session: the error is reported and the loop goes on to read the *)
(* next input, whereas in non-interactive mode the same error is fatal and *)
(* no output is formatted or written.                                      *)
(***************************************************************************)
\* the run has ended by log.Fatalf on the error of AnalyzeThought
C35_FatalByAnalysis ==
    /\ cliPc = "Fatal"
    /\ fatal # Nil
    /\ HasPrefix(fatal[1], "Think tool call error: ")

\* the line that reports an error of AnalyzeThought in a session
C35_IsReport(line) == HasPrefix(line, "Error: ") /\ HasSuffix(line, "\n")

\* C35: in a session the return of AnalyzeThought, with an error or without,
\* prints one line (the report of the error, or the output) and leads back
\* to the reading of the input, and no session ends by the error of an
\* analysis; a run without -interactive that ends by it has printed nothing
\* and has written no file.
C35_ErrorHandling ==
    [][ /\ (cliPc = "Analyzing" /\ cliPc' # "Analyzing") =>
              /\ cliPc' = "Reading"
              /\ fatal' = Nil
              /\ Len(console) < MaxConsole =>
                    /\ Len(console') = Len(console) + 1
                    /\ \/ C35_IsReport(console'[Len(console')])
                       \/ console'[Len(console')]
                             = FormatOutput(AnalyzeThoughtFunc(input, "response").resp[1],
                                            flags.format) \o "\n"
        /\ C35_FatalByAnalysis' =>
              /\ ~flags.interactive
              /\ Len(cliCalls') = 1
              /\ console' = <<>>
              /\ files' = CLIFiles
              /\ \A k \in 1..Len(ops') : ops'[k].op # "WriteToFile"
      ]_vars

\* C35 reached: a session has reported the error of an analysis and has
\* printed the prompt for the next input.
C35_Witness ==
    /\ flags.interactive
    /\ cliPc \in {"Reading", "Analyzing"}
    /\ \E k \in 1..(Len(console) - 1) :
          /\ console[k] = "Error: API error\n"
          /\ console[k + 1] = "> "
    /\ fatal = Nil


(***************************************************************************)
(* C36.  The credential never flows into data the orchestrator emits: for  *)
(* two runs that differ only in the value of the API key (both non-empty), *)
(* the request payloads passed to SendRequest and everything               *)
(* AnalyzeThought prints are identical.                                    *)
(***************************************************************************)
\* the API key of invocation i: that of its config, or that of the
\* environment when the config has none
C36_KeyOf(i) == IF config[i].APIKey # "" THEN config[i].APIKey ELSE env

\* the two invocations differ in nothing but the value of their API keys,
\* and both have one
C36_DifferInKeyOnly(i, j) ==
    /\ thought[i] = thought[j]
    /\ \A f \in DOMAIN config[i] \ {"APIKey"} : config[i][f] = config[j][f]
    /\ C36_KeyOf(i) # C36_KeyOf(j)
    /\ C36_KeyOf(i) # "" /\ C36_KeyOf(j) # ""

\* C36: of two such runs, the first requests are the same, the follow-up
\* requests after the same first reply are the same, the runs that got the
\* same replies have passed the same requests, and what they have printed
\* is the same.
C36_KeyNotEmitted ==
    \A i, j \in Invocations :
        C36_DifferInKeyOnly(i, j) =>
            /\ (Len(sent[i]) >= 1 /\ Len(sent[j]) >= 1) => sent[i][1] = sent[j][1]
            /\ (Len(sent[i]) >= 2 /\ Len(sent[j]) >= 2 /\ received[i][1] = received[j][1])
                  => sent[i][2] = sent[j][2]
            /\ (Returned(i) /\ Returned(j) /\ received[i] = received[j]) => sent[i] = sent[j]
            /\ \A a, b \in 1..Len(stdout) : stdout[a] = stdout[b]
            /\ Len(stdout) = Cardinality({n \in {i, j} : Len(sent[n]) >= 1})

\* C36 reached: a run with the key "test-key" and one with the key
\* "other-key" have passed the same two requests and printed the same.
C36_Witness ==
    /\ C36_DifferInKeyOnly(1, 2)
    /\ config[1].APIKey = "test-key" /\ config[2].APIKey = "other-key"
    /\ Returned(1) /\ Returned(2)
    /\ Len(sent[1]) = 2 /\ sent[1] = sent[2]
    /\ Len(stdout) = 2 /\ stdout[1] = stdout[2]


(***************************************************************************)
(* C37.  The follow-up request carries the same model and max_tokens as    *)
(* the initial request of the same run (the config is not changed between  *)
(* the two turns), and, unlike the initial request, it has no tools field. *)
(***************************************************************************)
\* C37: the follow-up request has the model and max_tokens of the initial
\* request, which are those of the run's config, and no tools; the initial
\* request has tools.
C37_FollowUpFrame ==
    \A i \in Invocations :
        /\ Len(sent[i]) >= 1 =>
              /\ "tools" \in DOMAIN sent[i][1].v
              /\ sent[i][1].v["model"] = JStr(config[i].Model)
              /\ sent[i][1].v["max_tokens"] = JNum(config[i].MaxTokens)
        /\ Len(sent[i]) >= 2 =>
              /\ sent[i][2].v["model"] = sent[i][1].v["model"]
              /\ sent[i][2].v["max_tokens"] = sent[i][1].v["max_tokens"]
              /\ "tools" \notin DOMAIN sent[i][2].v
              /\ DOMAIN sent[i][2].v = {"model", "max_tokens", "messages"}

\* C37 reached: a run with -model test-model and -max-tokens 2048 has sent
\* its follow-up request with both, and without tools.
C37_Witness ==
    /\ flags.model = "test-model" /\ flags.maxTokens = 2048
    /\ Len(sent[1]) = 2
    /\ sent[1][2].v["model"] = JStr("test-model")
    /\ sent[1][2].v["max_tokens"] = JNum(2048)
    /\ "tools" \in DOMAIN sent[1][1].v
    /\ "tools" \notin DOMAIN sent[1][2].v


(***************************************************************************)
(* C38.  In non-interactive mode the formatted output goes to exactly one  *)
(* destination, and only after a successful analysis: when -output is set  *)
(* it is written once to that file and not printed, otherwise it is        *)
(* printed and no file is written; when the analysis fails, no file is     *)
(* written.  As stated (C38_AsClaimed) this fails when the -output file    *)
(* cannot be written: the one WriteToFile call fails, the run ends by      *)
(* log.Fatalf, and the output is in no destination.  It holds with the     *)
(* output written when that call succeeds (C38_OneDestination).            *)
(***************************************************************************)
\* a run in non-interactive mode has ended, by its return or by log.Fatalf
C38_Ended ==
    /\ cliPc \in {"Exited", "Fatal"}
    /\ ~flags.interactive /\ ~flags.version /\ ~flags.help

\* the analysis of the run was made and returned a response
C38_Analysed ==
    /\ Len(cliCalls) = 1
    /\ ~(fatal # Nil /\ HasPrefix(fatal[1], "Think tool call error: "))

\* the formatted output of the run
C38_Output ==
    FormatOutput(AnalyzeThoughtFunc(cliCalls[1].thought, "response").resp[1], flags.format)

\* the WriteToFile calls of the run
C38_Writes == SelectSeq(ops, LAMBDA o : o.op = "WriteToFile")

\* the output was printed
C38_Printed == \E k \in 1..Len(console) : console[k] = C38_Output \o "\n"

\* no file was written
C38_NoFileWritten == C38_Writes = <<>> /\ files = CLIFiles

\* the -output file holds the output, and no other file was touched
C38_InTheFile ==
    /\ files[flags.output] = [kind |-> "file", data |-> C38_Output]
    /\ \A p \in Paths \ {flags.output} : files[p] = CLIFiles[p]

\* C38 as claimed: after a successful analysis the output is in the -output
\* file, written once and not printed, or it is printed and no file is
\* written; after a failed analysis (or none) no file is written.
C38_AsClaimed ==
    C38_Ended =>
        IF C38_Analysed
        THEN IF flags.output # ""
             THEN Len(C38_Writes) = 1 /\ C38_InTheFile /\ ~C38_Printed
             ELSE C38_Printed /\ Len(console) = 1 /\ C38_NoFileWritten
        ELSE C38_NoFileWritten

\* C38 as amended: the same, the output being in the -output file when the
\* one WriteToFile call succeeds; when it fails the run ends by log.Fatalf
\* and nothing is printed.
C38_OneDestination ==
    C38_Ended =>
        IF C38_Analysed
        THEN IF flags.output # ""
             THEN /\ Len(C38_Writes) = 1
                  /\ C38_Writes[1].filePath = flags.output
                  /\ C38_Writes[1].data = C38_Output
                  /\ ~C38_Printed
                  /\ IF C38_Writes[1].err = Nil
                     THEN /\ C38_InTheFile
                          /\ cliPc = "Exited"
                          /\ console = <<"Analysis written to " \o flags.output \o "\n">>
                     ELSE /\ cliPc = "Fatal"
                          /\ HasPrefix(fatal[1], "Error writing output file: ")
                          /\ console = <<>>
             ELSE C38_Printed /\ Len(console) = 1 /\ C38_NoFileWritten
        ELSE C38_NoFileWritten

\* C38 reached: a run with -output out.txt has replaced what the file held
\* by its output and has printed only the line that says so.
C38_Witness ==
    /\ C38_Ended /\ C38_Analysed
    /\ flags.output = "out.txt" /\ flags.format = "json"
    /\ cliPc = "Exited"
    /\ files["out.txt"].data = C38_Output
    /\ files["out.txt"].data # CLIFiles["out.txt"].data
    /\ console = <<"Analysis written to out.txt\n">>

====
